---- MODULE Spec2Model ----
(***************************************************************************)
(* Cortex: the archive pipeline (transcript -> chunks -> filter -> dedup   *)
(* -> embed -> insert) and the hybrid search, as state machines.           *)
(*                                                                         *)
(* Text is not modelled character by character.  A text is a sequence of   *)
(* sentences drawn from a fixed corpus, optionally padded with one blank   *)
(* on each side; a sentence carries what the code reads of it: its length, *)
(* its word count and whether the regular expressions of the archive       *)
(* module match it.  Sentences of one text are separated by one blank.     *)
(***************************************************************************)
EXTENDS Integers, Sequences, FiniteSets, TLC

\* ------------------------------------------------------------------ bounds

\* Operations (archiveSession, archiveContent, insert) started in one behaviour.
MaxOps == 2

\* Fragments in the store a search runs against.
MaxMemories == 2

\* Rank positions tried at the top of a ranked list: 1..MaxTopRank.
MaxTopRank == 2

\* Rank positions tried far down a ranked list: FarRank and FarRank + 1.
FarRank == 63

\* Ages tried for the two fused fragments: 0..MaxHalfLives half-lives.
MaxHalfLives == 3

\* ------------------------------------------------------- program constants

MIN_CONTENT_LENGTH == 50
LONG_PARAGRAPH == 1000
CHUNK_LIMIT == 800
MIN_WORDS == 10
RRF_K == 60
HALF_LIFE_DAYS == 7
RECALL_LIMIT == 5
EMBEDDING_DIM == 384
MODEL_NAME == "Xenova/bge-small-en-v1.5"
TEST_LIMIT == 2

NULL == "null"
NOW == "now"

\* --------------------------------------------------------------- the corpus

\* jwt:    "We implemented JWT authentication with refresh tokens stored in
\*          Redis, because stateless tokens alone could not be revoked."
\* mig:    "We fixed the issue by reordering the migrations."
\* rate:   "For API rate limiting, we decided to use a sliding window
\*          algorithm with Redis."
\* thanks: "thanks"
\* digits: sixty decimal digits
\* plain:  "Antidisestablishmentarianism pseudopseudohypoparathyroidism."
\* long:   one sentence of 327 characters and 62 words, no value signal
Sentences ==
  {"jwt", "mig", "rate", "thanks", "digits", "plain", "long", "edge", "huge"}

\* length in characters
SentLen(s) ==
  CASE s = "jwt" -> 123
    [] s = "mig" -> 48
    [] s = "rate" -> 79
    [] s = "thanks" -> 6
    [] s = "digits" -> 60
    [] s = "plain" -> 60
    [] s = "long" -> 327
    [] s = "edge" -> 145
    [] s = "huge" -> 1012

\* s.split(/\s+/).length
SentWords(s) ==
  CASE s = "jwt" -> 18
    [] s = "mig" -> 8
    [] s = "rate" -> 14
    [] s = "thanks" -> 1
    [] s = "digits" -> 1
    [] s = "plain" -> 2
    [] s = "long" -> 62
    [] s = "edge" -> 24
    [] s = "huge" -> 180

\* some pattern of EXCLUDED_PATTERNS matches the sentence as a whole string
EXCLUDED_PATTERNS(s) == s \in {"thanks", "digits"}

\* some pattern of VALUABLE_PATTERNS matches inside the sentence
VALUABLE_PATTERNS(s) == s \in {"jwt", "mig"}

Text(sents, pad) == [sents |-> sents, pad |-> pad]
NoText == Text(<<>>, FALSE)

RECURSIVE SumLen(_)
SumLen(sents) ==
  IF sents = <<>> THEN 0 ELSE SentLen(Head(sents)) + SumLen(Tail(sents))

RECURSIVE SumWords(_)
SumWords(sents) ==
  IF sents = <<>> THEN 0 ELSE SentWords(Head(sents)) + SumWords(Tail(sents))

\* String.length of the sentences joined by single blanks
JoinedLen(sents) ==
  IF sents = <<>> THEN 0 ELSE SumLen(sents) + (Len(sents) - 1)

\* String.length
TextLen(t) == JoinedLen(t.sents) + (IF t.pad THEN 2 ELSE 0)

\* String.prototype.trim
Trim(t) == Text(t.sents, FALSE)

\* ------------------------------------------------------- transcript files

MsgLine(role, paras, ts) ==
  [kind |-> "msg", role |-> role, paras |-> paras, ts |-> ts]
BlankLine == [kind |-> "blank", role |-> "", paras |-> <<>>, ts |-> ""]
BadLine == [kind |-> "bad", role |-> "", paras |-> <<>>, ts |-> ""]

P(sents) == Text(sents, FALSE)
Padded(sents) == Text(sents, TRUE)

\* The transcript files of the file system, by the stem of their name: the
\* lines of the file, or "missing" when no such file exists.  A message's
\* text is given as its paragraphs (the pieces between blank lines).
Paths == {"e2e", "mixed", "twice", "multi", "long", "missing", "locked"}

FileOf(path) ==
  CASE path = "e2e" ->
         << MsgLine("assistant", <<P(<<"jwt">>)>>, "t1"),
            MsgLine("assistant", <<P(<<"thanks">>)>>, "") >>
    [] path = "mixed" ->
         << MsgLine("user", <<P(<<"rate">>)>>, "t1"),
            BadLine,
            MsgLine("assistant", <<Padded(<<"jwt">>)>>, "t2"),
            MsgLine("system", <<P(<<"jwt", "rate">>)>>, ""),
            MsgLine("user", <<P(<<"thanks">>)>>, "t3") >>
    [] path = "twice" ->
         << MsgLine("assistant", <<P(<<"jwt">>), P(<<"rate">>)>>, "t1"),
            BlankLine,
            MsgLine("assistant", <<P(<<"jwt">>)>>, "") >>
    [] path = "multi" ->
         << MsgLine("assistant",
                    << P(<<"rate">>), P(<<"mig">>), P(<<"digits">>),
                       Padded(<<"plain">>), P(<<"mig", "jwt">>) >>, "t1"),
            MsgLine("assistant", <<>>, "t2") >>
    [] path = "long" ->
         << MsgLine("assistant",
                    << P(<<"long", "long", "long", "long">>),
                       P(<<"long", "long", "long", "jwt">>) >>, "t1") >>
    [] path = "missing" -> <<>>
    [] path = "locked" -> <<>>

\* fs.existsSync(transcriptPath)
existsSync(path) == path # "missing"

\* fs.createReadStream(transcriptPath) can read the file: "locked" exists
\* and cannot be read (no read permission, or a directory)
readable(path) == path # "locked"

\* The path of a transcript: its directories and its file name, the name as
\* its dot-separated pieces.
TranscriptPath(path) ==
  [dir |-> <<"home", "sessions">>,
   base |-> IF path = "long" THEN <<path, "v2", "jsonl">> ELSE <<path, "jsonl">>]

\* the file name cut at its first dot
getSessionIdFirstPiece(path) == <<TranscriptPath(path).base[1]>>

\* getSessionId: the file name without its last extension
getSessionId(path) ==
  LET base == TranscriptPath(path).base IN
    IF Len(base) >= 2 /\ base[Len(base)] # ""
    THEN SubSeq(base, 1, Len(base) - 1)
    ELSE base

\* ContentExtractor: the text of a message is its paragraphs; a message whose
\* content holds no text yields the empty string.
extractTextContent(line) == line.paras

\* parseTranscript: no file -> no messages; blank and malformed lines are
\* skipped; a message enters the result only with non-empty text.
IsMessageLine(l) == l.kind = "msg" /\ extractTextContent(l) # <<>>

MessagesOf(lines) ==
  LET kept == SelectSeq(lines, IsMessageLine)
  IN [i \in 1..Len(kept) |->
        [role |-> kept[i].role, content |-> kept[i].paras,
         timestamp |-> kept[i].ts]]

\* the line loop giving up at the first line JSON.parse rejects
parseLinesUntilMalformed(lines) ==
  LET bad == {i \in 1..Len(lines) : lines[i].kind = "bad"}
      n == IF bad = {} THEN Len(lines)
           ELSE (CHOOSE i \in bad : \A j \in bad : i <= j) - 1
  IN MessagesOf(SubSeq(lines, 1, n))

\* the line loop of parseTranscript
parseLines(lines) == MessagesOf(lines)

parseTranscript(path) ==
  IF ~existsSync(path) THEN <<>>
  ELSE parseLines(FileOf(path))

\* ------------------------------------------------------- content filtering

\* shouldExclude
shouldExclude(content) ==
  LET trimmed == Trim(content) IN
    \/ TextLen(trimmed) < MIN_CONTENT_LENGTH
    \/ Len(trimmed.sents) = 1 /\ EXCLUDED_PATTERNS(trimmed.sents[1])

\* isValuable: a value signal, or at least ten pieces of content.split(/\s+/)
\* (leading and trailing blanks each add an empty piece)
isValuable(content) ==
  \/ \E i \in 1..Len(content.sents) : VALUABLE_PATTERNS(content.sents[i])
  \/ SumWords(content.sents) + (IF content.pad THEN 2 ELSE 0) >= MIN_WORDS

\* the flush without its length test
FlushUnchecked(cur, out) ==
  IF cur # <<>> THEN Append(out, Trim(P(cur))) ELSE out

\* the flush of currentChunk: pushed, trimmed, when it has the minimum length
Flush(cur, out) ==
  IF JoinedLen(cur) >= MIN_CONTENT_LENGTH THEN Append(out, Trim(P(cur))) ELSE out

\* the sentence loop of extractChunks over one long paragraph
RECURSIVE SplitSentences(_, _, _)
SplitSentences(sents, cur, out) ==
  IF sents = <<>> THEN Flush(cur, out)
  ELSE IF JoinedLen(cur) + SentLen(Head(sents)) > CHUNK_LIMIT
       THEN SplitSentences(Tail(sents), <<Head(sents)>>, Flush(cur, out))
       ELSE SplitSentences(Tail(sents), Append(cur, Head(sents)), out)

ChunksOfParagraph(para) ==
  LET trimmed == Trim(para) IN
    IF TextLen(trimmed) < MIN_CONTENT_LENGTH THEN <<>>
    ELSE IF TextLen(trimmed) > LONG_PARAGRAPH
         THEN SplitSentences(trimmed.sents, <<>>, <<>>)
         ELSE <<trimmed>>

\* extractChunks: the chunks of one message text, in order
RECURSIVE extractChunks(_)
extractChunks(content) ==
  IF content = <<>> THEN <<>>
  ELSE ChunksOfParagraph(Head(content)) \o extractChunks(Tail(content))

\* ------------------------------------------------------------- the store

\* The content hash: a digest of the normalized (trimmed) content, taken to
\* be collision free.
Normalize(content) == Trim(content)
Hash(content) == Normalize(content).sents

\* contentExists(db, content)
contentExists(db, content) ==
  \E i \in 1..Len(db) : db[i].contentHash = Hash(content)

\* the id of the next row: one more than the largest id in the table
NextId(db) ==
  IF db = <<>> THEN 1
  ELSE 1 + (CHOOSE m \in {db[i].id : i \in 1..Len(db)} :
              \A i \in 1..Len(db) : db[i].id <= m)

AppendRow(db, memory) ==
  Append(db, [id |-> NextId(db),
              content |-> Normalize(memory.content),
              contentHash |-> Hash(memory.content),
              embedding |-> memory.embedding,
              projectId |-> memory.projectId,
              sourceSession |-> memory.sourceSession,
              timestamp |-> memory.timestamp])

\* insertMemory without the duplicate check: every call adds a row
insertMemoryUnchecked(db, memory) ==
  [db |-> AppendRow(db, memory), id |-> NextId(db), isDuplicate |-> FALSE]

\* insertMemory as INSERT OR REPLACE: a duplicate overwrites the stored row
insertMemoryReplacing(db, memory) ==
  LET h == Hash(memory.content) IN
    IF \E i \in 1..Len(db) : db[i].contentHash = h
    THEN LET k == CHOOSE i \in 1..Len(db) : db[i].contentHash = h IN
           [db |-> [db EXCEPT ![k].projectId = memory.projectId,
                              ![k].sourceSession = memory.sourceSession,
                              ![k].embedding = memory.embedding],
            id |-> db[k].id,
            isDuplicate |-> TRUE]
    ELSE [db |-> AppendRow(db, memory), id |-> NextId(db), isDuplicate |-> FALSE]

\* insertMemory(db, memory): the check and the insert as one unit
insertMemory(db, memory) ==
  LET h == Hash(memory.content) IN
    IF \E i \in 1..Len(db) : db[i].contentHash = h
    THEN [db |-> db,
          id |-> db[CHOOSE i \in 1..Len(db) : db[i].contentHash = h].id,
          isDuplicate |-> TRUE]
    ELSE [db |-> AppendRow(db, memory), id |-> NextId(db), isDuplicate |-> FALSE]

\* ---------------------------------------------------------- the embedder

PASSAGE_PREFIX == "passage: "

\* the vectors of the texts, last text first
embedBatchReversed(texts) ==
  [i \in 1..Len(texts) |->
     [prefix |-> PASSAGE_PREFIX, text |-> texts[Len(texts) + 1 - i]]]

\* one vector per text, in input order; the vector is named by what was embedded
embedBatch(texts) ==
  [i \in 1..Len(texts) |-> [prefix |-> PASSAGE_PREFIX, text |-> texts[i]]]

\* ------------------------------------------------------------- archiving

ZeroResult == [archived |-> 0, skipped |-> 0, duplicates |-> 0]

\* config.archive.minContentLength || MIN_CONTENT_LENGTH
MinLength(minContentLength) ==
  IF minContentLength = 0 THEN MIN_CONTENT_LENGTH ELSE minContentLength

\* the role test letting system messages through
IsArchivableNotUser(message) == message.role # "user"

\* the role test of the message loop
IsArchivable(message) == message.role = "assistant"

\* the chunk candidates of a transcript, in order, each with the timestamp
\* its fragment would get
RECURSIVE Candidates(_)
Candidates(messages) ==
  IF messages = <<>> THEN <<>>
  ELSE LET m == Head(messages)
           chunks == extractChunks(m.content)
           own == IF IsArchivable(m)
                  THEN [i \in 1..Len(chunks) |->
                          [content |-> chunks[i],
                           timestamp |-> IF m.timestamp # "" THEN m.timestamp ELSE NOW]]
                  ELSE <<>>
       IN own \o Candidates(Tail(messages))

\* the filter loop with a pre-check hit counted as skipped
ClassifyDuplicateAsSkipped(db, chunk, minLength) ==
  IF TextLen(chunk) < minLength THEN "skipped"
  ELSE IF shouldExclude(chunk) THEN "skipped"
  ELSE IF ~isValuable(chunk) THEN "skipped"
  ELSE IF contentExists(db, chunk) THEN "skipped"
  ELSE "archive"

\* the filter loop with the value gate passing on without counting
ClassifyValueUncounted(db, chunk, minLength) ==
  IF TextLen(chunk) < minLength THEN "skipped"
  ELSE IF shouldExclude(chunk) THEN "skipped"
  ELSE IF ~isValuable(chunk) THEN "dropped"
  ELSE IF contentExists(db, chunk) THEN "duplicate"
  ELSE "archive"

\* what the filter loop does with one chunk
Classify(db, chunk, minLength) ==
  IF TextLen(chunk) < minLength THEN "skipped"
  ELSE IF shouldExclude(chunk) THEN "skipped"
  ELSE IF ~isValuable(chunk) THEN "skipped"
  ELSE IF contentExists(db, chunk) THEN "duplicate"
  ELSE "archive"

CountOf(seq, Test(_)) == Len(SelectSeq(seq, Test))

\* the message loop of archiveSession: the counters and contentToArchive
FilterLoop(db, messages, minLength) ==
  LET cands == Candidates(messages)
      IsSkipped(c) == Classify(db, c.content, minLength) = "skipped"
      IsDuplicate(c) == Classify(db, c.content, minLength) = "duplicate"
      IsKept(c) == Classify(db, c.content, minLength) = "archive"
  IN [skipped |-> CountOf(cands, IsSkipped),
      duplicates |-> CountOf(cands, IsDuplicate),
      contentToArchive |-> SelectSeq(cands, IsKept)]

\* the insert loop: every item of contentToArchive, in order, with its embedding
RECURSIVE InsertLoop(_, _, _, _, _, _)
InsertLoop(db, items, embeddings, projectId, sessionId, isDup) ==
  IF items = <<>> THEN [db |-> db, isDup |-> isDup]
  ELSE LET r == insertMemory(db, [content |-> Head(items).content,
                                  embedding |-> Head(embeddings),
                                  projectId |-> projectId,
                                  sourceSession |-> sessionId,
                                  timestamp |-> Head(items).timestamp])
       IN InsertLoop(r.db, Tail(items), Tail(embeddings), projectId, sessionId,
                     Append(isDup, r.isDuplicate))

\* the chunk loop with each kept chunk embedded as soon as it passed the pre-check
RECURSIVE ChunkWorkEmbedEach(_, _, _)
ChunkWorkEmbedEach(db, chunks, minLength) ==
  IF chunks = <<>> THEN <<>>
  ELSE (CASE Classify(db, Head(chunks), minLength) = "skipped" -> <<"Filtering">>
          [] Classify(db, Head(chunks), minLength) = "duplicate" ->
               <<"Filtering", "Deduping">>
          [] OTHER -> <<"Filtering", "Deduping", "Embedding">>)
       \o ChunkWorkEmbedEach(db, Tail(chunks), minLength)

\* the work of the chunk loop, in the order it is done: each chunk goes
\* through the three filters, and one that passes them through contentExists,
\* before the next chunk is looked at
RECURSIVE ChunkWork(_, _, _)
ChunkWork(db, chunks, minLength) ==
  IF chunks = <<>> THEN <<>>
  ELSE (IF Classify(db, Head(chunks), minLength) = "skipped"
        THEN <<"Filtering">>
        ELSE <<"Filtering", "Deduping">>)
       \o ChunkWork(db, Tail(chunks), minLength)

\* the work of the message loop: extractChunks of one assistant message,
\* then the chunk loop over its chunks, then the next message
RECURSIVE LoopWork(_, _, _)
LoopWork(db, messages, minLength) ==
  IF messages = <<>> THEN <<>>
  ELSE (IF IsArchivable(Head(messages))
        THEN <<"Extracting">>
             \o ChunkWork(db, extractChunks(Head(messages).content), minLength)
        ELSE <<>>)
       \o LoopWork(db, Tail(messages), minLength)

\* the insert loop's work: one insert per item of contentToArchive
InsertWork(items) == [i \in 1..Len(items) |-> "Persisting"]

CountTrue(flags) == Cardinality({i \in 1..Len(flags) : flags[i]})
CountFalse(flags) == Cardinality({i \in 1..Len(flags) : ~flags[i]})

\* ---------------------------------------------------------------- state

VARIABLES
  store,             \* the memories table of the open database, in row order
  disk,              \* the table as last written by saveDb
  minContentLength,  \* config.archive.minContentLength of the config file
  procs,             \* per caller: the operation it is running, and its locals
  ops,               \* operations started so far
  lastRun,           \* the last archiveSession run that returned
  memories,          \* the fragments a search runs against, as the query sees them
  request,           \* the recall command: the caller's project, the --all flag
  results,           \* what the search returned
  ranks,             \* the ranks of two fragments A and B in the two ranked lists
  ages,              \* the ages in days of A and B at query time
  fused,             \* the fused scores of A and B
  paragraph,         \* one paragraph of a message text handed to extractChunks
  extracted,         \* the chunks extractChunks returned for it
  embedder,          \* embeddings.ts: the loaded pipeline, or null
  initPromise,       \* embeddings.ts: the promise of the load under way, or null
  pipelineFunc,      \* embeddings.ts: the imported pipeline function is cached
  loads,             \* the model loads started so far, and how far each got
  calls,              \* per client: its call of initEmbedder and what it got
  batch,             \* one archiveSession run by its numbers: phase, texts, loop index
  reports,            \* the calls of the progress callback so far
  configFile,        \* ~/.cortex/config.json: missing, unreadable, or its content
  main,              \* the run of main under way or last ended
  runs               \* runs of main started so far

archiveVars == <<store, disk, minContentLength, procs, ops, lastRun>>
searchVars == <<memories, request, results>>
fusionVars == <<ranks, ages, fused>>
chunkVars == <<paragraph, extracted>>
embedderVars == <<embedder, initPromise, pipelineFunc, loads, calls>>
progressVars == <<batch, reports>>
commandVars == <<configFile, main, runs>>
nonArchiveVars == <<searchVars, fusionVars, chunkVars, embedderVars, progressVars, commandVars>>
nonSearchVars == <<archiveVars, fusionVars, chunkVars, embedderVars, progressVars, commandVars>>
nonFusionVars == <<archiveVars, searchVars, chunkVars, embedderVars, progressVars, commandVars>>
nonChunkVars == <<archiveVars, searchVars, fusionVars, embedderVars, progressVars, commandVars>>
nonEmbedderVars == <<archiveVars, searchVars, fusionVars, chunkVars, progressVars, commandVars>>
nonProgressVars == <<archiveVars, searchVars, fusionVars, chunkVars, embedderVars, commandVars>>
nonCommandVars == <<archiveVars, searchVars, fusionVars, chunkVars, embedderVars, progressVars>>
vars == <<archiveVars, searchVars, fusionVars, chunkVars, embedderVars, progressVars, commandVars>>

Callers == {1, 2}

\* the callers of initEmbedder within one process, and a caller outside
\* any call
MaxClients == 3
NoEmbedder == 0
NoPromise == 0
Clients == 1..MaxClients
NoCall == [pc |-> "idle", promise |-> NoPromise, value |-> NoEmbedder]

\* the project a caller archives into: caller 1 works in a project directory,
\* caller 2 archives globally
CallerProject(c) == IF c = 1 THEN "projA" ELSE NULL

\* the contents handed to archiveContent and to insert
ManualContents == {P(<<"jwt">>), Padded(<<"jwt">>), P(<<"thanks">>)}

NoRun == [path |-> "", result |-> ZeroResult, len |-> 0]
NoReturn == [success |-> FALSE, isDuplicate |-> FALSE, id |-> 0]
NoStatus == [success |-> FALSE, model |-> "", dimensions |-> 0, error |-> ""]

Idle ==
  [pc |-> "idle", op |-> "none", path |-> "", content |-> NoText,
   minLength |-> 0, result |-> ZeroResult, contentToArchive |-> <<>>,
   isDup |-> <<>>, preDuplicates |-> 0, len0 |-> 0, prev |-> NoRun,
   ret |-> NoReturn, messages |-> <<>>, status |-> NoStatus,
   embedded |-> FALSE, trace |-> <<>>]

\* the configured minimum lengths: the default and the "essential" preset
ConfiguredMinLengths == {50, 100}

NoRequest ==
  [projectId |-> NULL, includeAll |-> FALSE, limit |-> 0, state |-> "none"]
NoRanks == [kwA |-> 0, vecA |-> 0, kwB |-> 0, vecB |-> 0]
NoAges == [a |-> 0, b |-> 0]
NoFused == [state |-> "none"]

SearchIdle ==
  /\ memories = <<>>
  /\ request = NoRequest
  /\ results = <<>>

FusionIdle ==
  /\ ranks = NoRanks
  /\ ages = NoAges
  /\ fused = NoFused

NoChunks == [state |-> "none", chunks |-> <<>>]

ChunkIdle ==
  /\ paragraph = NoText
  /\ extracted = NoChunks

\* JSON values: null, a scalar by its literal, an object by its fields
JNull == [type |-> "null", v |-> "null", fields |-> <<>>]
Scalar(v) == [type |-> "scalar", v |-> v, fields |-> <<>>]
Obj(fields) == [type |-> "object", v |-> "", fields |-> fields]
UNDEFINED_VALUE == [type |-> "undefined", v |-> "undefined", fields |-> <<>>]

\* the configuration file: whether it exists, can be read, and its text as
\* what JSON.parse makes of it (no value when the text is not JSON)
ConfigFile(state, json) == [state |-> state, json |-> json]
NoConfigFile == ConfigFile("missing", JNull)

NoStdin == [present |-> FALSE, transcript_path |-> "", cwd |-> ""]

\* no run of main
NoMain ==
  [pc |-> "none", command |-> "", arg |-> "", stdin |-> NoStdin,
   config |-> JNull, loaded |-> FALSE, opened |-> FALSE, archived |-> <<>>,
   stored |-> FALSE, closed |-> FALSE, reported |-> FALSE, exit |-> "none"]

CommandIdle ==
  /\ configFile = NoConfigFile
  /\ main = NoMain
  /\ runs = 0

\* no archiveSession run followed by its numbers
NoBatch == [phase |-> "none", total |-> 0, i |-> 0, results |-> 0]

ProgressIdle ==
  /\ batch = NoBatch
  /\ reports = <<>>

\* the embeddings module as loaded: no embedder, no load pending
EmbedderIdle ==
  /\ embedder = NoEmbedder
  /\ initPromise = NoPromise
  /\ pipelineFunc = FALSE
  /\ loads = <<>>
  /\ calls = [c \in Clients |-> NoCall]

ArchiveIdle ==
  /\ store = <<>>
  /\ disk = <<>>
  /\ procs = [c \in Callers |-> Idle]
  /\ ops = 0
  /\ lastRun = NoRun

Init ==
  /\ ArchiveIdle
  /\ minContentLength \in ConfiguredMinLengths
  /\ SearchIdle
  /\ FusionIdle
  /\ ChunkIdle
  /\ EmbedderIdle
  /\ ProgressIdle
  /\ CommandIdle

CanStart(c) ==
  /\ procs[c].pc \in {"idle", "done", "failed"}
  /\ ops < MaxOps

\* saveDb(db)
saveDb(db) == db

\* archiveSession, up to its first await: loadConfig, then parseTranscript
\* is called
StartSession(c, path) ==
  /\ CanStart(c)
  /\ procs' = [procs EXCEPT ![c] =
       [Idle EXCEPT !.pc = "parsing", !.op = "session", !.path = path,
                    !.trace = <<"Parsing">>,
                    !.minLength = MinLength(minContentLength),
                    !.len0 = Len(store),
                    !.prev = IF lastRun.path = path /\ lastRun.len = Len(store)
                             THEN lastRun ELSE NoRun]]
  /\ ops' = ops + 1
  /\ UNCHANGED <<store, disk, minContentLength, lastRun, nonArchiveVars>>

\* archiveSession from the parsed messages to the call of embedBatch: the
\* message loop with its pre-checks, and the two early returns
FilterSession(c) ==
  LET p == procs[c]
      messages == parseTranscript(p.path)
      f == FilterLoop(store, messages, p.minLength)
      result == [archived |-> 0, skipped |-> f.skipped, duplicates |-> f.duplicates]
      prev == IF p.len0 = Len(store) THEN p.prev ELSE NoRun
      work == p.trace \o LoopWork(store, messages, p.minLength)
  IN /\ p.pc = "parsing"
     /\ existsSync(p.path) => readable(p.path)
     /\ IF messages = <<>>
        THEN /\ procs' = [procs EXCEPT ![c] =
                  [p EXCEPT !.pc = "done", !.len0 = Len(store), !.prev = prev,
                            !.trace = Append(p.trace, "Done")]]
             /\ lastRun' = [path |-> p.path, result |-> ZeroResult, len |-> Len(store)]
        ELSE IF f.contentToArchive = <<>>
        THEN /\ procs' = [procs EXCEPT ![c] =
                  [p EXCEPT !.pc = "done", !.result = result,
                            !.trace = Append(work, "Done"),
                            !.messages = messages,
                            !.preDuplicates = f.duplicates,
                            !.len0 = Len(store), !.prev = prev]]
             /\ lastRun' = [path |-> p.path, result |-> result, len |-> Len(store)]
        ELSE /\ procs' = [procs EXCEPT ![c] =
                  [p EXCEPT !.pc = "embedding", !.result = result,
                            !.trace = Append(work, "Embedding"),
                            !.messages = messages,
                            !.preDuplicates = f.duplicates,
                            !.contentToArchive = f.contentToArchive,
                            !.len0 = Len(store), !.prev = prev]]
             /\ UNCHANGED lastRun
     /\ UNCHANGED <<store, disk, minContentLength, ops, nonArchiveVars>>

\* parseTranscript on a file that exists and cannot be read: the read stream
\* fails, and archiveSession with it
ReadFail(c) ==
  /\ procs[c].pc = "parsing"
  /\ existsSync(procs[c].path)
  /\ ~readable(procs[c].path)
  /\ procs' = [procs EXCEPT ![c].pc = "failed"]
  /\ UNCHANGED <<store, disk, minContentLength, ops, lastRun, nonArchiveVars>>

\* archiveSession after embedBatch returned: the insert loop, saveDb, return
PersistSession(c) ==
  LET p == procs[c]
      texts == [i \in 1..Len(p.contentToArchive) |-> p.contentToArchive[i].content]
      r == InsertLoop(store, p.contentToArchive, embedBatch(texts),
                      CallerProject(c), getSessionId(p.path), <<>>)
      result == [archived |-> p.result.archived + CountFalse(r.isDup),
                 skipped |-> p.result.skipped,
                 duplicates |-> p.result.duplicates + CountTrue(r.isDup)]
  IN /\ p.pc = "embedding"
     /\ p.op = "session"
     /\ store' = r.db
     /\ disk' = saveDb(r.db)
     /\ procs' = [procs EXCEPT ![c] =
          [p EXCEPT !.pc = "done", !.result = result, !.isDup = r.isDup,
                    !.trace = Append(p.trace \o InsertWork(p.contentToArchive),
                                     "Done")]]
     /\ lastRun' = [path |-> p.path, result |-> result, len |-> Len(r.db)]
     /\ UNCHANGED <<minContentLength, ops, nonArchiveVars>>

\* a failure that leaves the first pending fragment in the store all the same
EmbedFailAfterInsert(c) ==
  /\ procs[c].pc = "embedding"
  /\ store' = insertMemory(store,
                 [content |-> procs[c].contentToArchive[1].content,
                  embedding |-> embedBatch(<<procs[c].contentToArchive[1].content>>)[1],
                  projectId |-> CallerProject(c),
                  sourceSession |-> <<"manual">>,
                  timestamp |-> NOW]).db
  /\ procs' = [procs EXCEPT ![c].pc = "failed"]
  /\ UNCHANGED <<disk, minContentLength, ops, lastRun, nonArchiveVars>>

\* the embedding provider fails: embedBatch throws, and so does the operation
EmbedFail(c) ==
  /\ procs[c].pc = "embedding"
  /\ procs' = [procs EXCEPT ![c].pc = "failed"]
  /\ UNCHANGED <<store, disk, minContentLength, ops, lastRun, nonArchiveVars>>

\* archiveContent up to the call of embedBatch: the pre-check
StartContent(c, content) ==
  /\ CanStart(c)
  /\ IF contentExists(store, content)
     THEN procs' = [procs EXCEPT ![c] =
            [Idle EXCEPT !.pc = "done", !.op = "content", !.content = content,
                         !.len0 = Len(store),
                         !.ret = [success |-> FALSE, isDuplicate |-> TRUE, id |-> 0]]]
     ELSE procs' = [procs EXCEPT ![c] =
            [Idle EXCEPT !.pc = "embedding", !.op = "content", !.content = content,
                         !.len0 = Len(store),
                         !.contentToArchive =
                            <<[content |-> content, timestamp |-> NOW]>>]]
  /\ ops' = ops + 1
  /\ UNCHANGED <<store, disk, minContentLength, lastRun, nonArchiveVars>>

\* the flush of archiveContent done for duplicates only
SaveAfterContentOnDuplicate(isDuplicate) == isDuplicate

\* archiveContent: if (!isDuplicate) saveDb(db)
SaveAfterContent(isDuplicate) == ~isDuplicate

\* archiveContent after embedBatch returned: insert, saveDb unless duplicate
PersistContent(c) ==
  LET p == procs[c]
      r == insertMemory(store, [content |-> p.content,
                                embedding |-> embedBatch(<<p.content>>)[1],
                                projectId |-> CallerProject(c),
                                sourceSession |-> <<"manual">>,
                                timestamp |-> NOW])
  IN /\ p.pc = "embedding"
     /\ p.op = "content"
     /\ store' = r.db
     /\ disk' = IF SaveAfterContent(r.isDuplicate) THEN saveDb(r.db) ELSE disk
     /\ procs' = [procs EXCEPT ![c] =
          [p EXCEPT !.pc = "done", !.isDup = <<r.isDuplicate>>,
                    !.ret = [success |-> ~r.isDuplicate,
                             isDuplicate |-> r.isDuplicate, id |-> 0]]]
     /\ UNCHANGED <<minContentLength, ops, lastRun, nonArchiveVars>>

\* a direct call of the store's insert
Insert(c, content) ==
  LET r == insertMemory(store, [content |-> content,
                                embedding |-> embedBatch(<<content>>)[1],
                                projectId |-> CallerProject(c),
                                sourceSession |-> <<"direct">>,
                                timestamp |-> NOW])
  IN /\ CanStart(c)
     /\ store' = r.db
     /\ procs' = [procs EXCEPT ![c] =
          [Idle EXCEPT !.pc = "done", !.op = "insert", !.content = content,
                       !.len0 = Len(store), !.isDup = <<r.isDuplicate>>,
                       !.ret = [success |-> ~r.isDuplicate,
                                isDuplicate |-> r.isDuplicate, id |-> r.id]]]
     /\ ops' = ops + 1
     /\ UNCHANGED <<disk, minContentLength, lastRun, nonArchiveVars>>

\* verifyModel up to its first await: initEmbedder is called
StartVerify(c) ==
  /\ CanStart(c)
  /\ procs' = [procs EXCEPT ![c] =
       [Idle EXCEPT !.pc = "loading", !.op = "verify", !.len0 = Len(store)]]
  /\ ops' = ops + 1
  /\ UNCHANGED <<store, disk, minContentLength, lastRun, nonArchiveVars>>

\* initEmbedder resolved: embedPassage('test') is called
VerifyLoaded(c) ==
  /\ procs[c].pc = "loading"
  /\ procs[c].op = "verify"
  /\ procs' = [procs EXCEPT ![c].pc = "testing"]
  /\ UNCHANGED <<store, disk, minContentLength, ops, lastRun, nonArchiveVars>>

\* embedPassage resolved with the test embedding: the success status
VerifySucceed(c) ==
  /\ procs[c].pc = "testing"
  /\ procs[c].op = "verify"
  /\ procs' = [procs EXCEPT ![c].pc = "done", ![c].embedded = TRUE,
                            ![c].status =
                               [success |-> TRUE, model |-> MODEL_NAME,
                                dimensions |-> EMBEDDING_DIM, error |-> ""]]
  /\ UNCHANGED <<store, disk, minContentLength, ops, lastRun, nonArchiveVars>>

\* a failure of the provider that verifyModel lets through to its caller
VerifyCatchRethrow(c) ==
  /\ procs[c].pc \in {"loading", "testing"}
  /\ procs[c].op = "verify"
  /\ procs' = [procs EXCEPT ![c].pc = "failed"]
  /\ UNCHANGED <<store, disk, minContentLength, ops, lastRun, nonArchiveVars>>

\* initEmbedder or embedPassage rejected: the catch block's failure status
VerifyCatch(c) ==
  /\ procs[c].pc \in {"loading", "testing"}
  /\ procs[c].op = "verify"
  /\ procs' = [procs EXCEPT ![c].pc = "done",
                            ![c].status =
                               [success |-> FALSE, model |-> MODEL_NAME,
                                dimensions |-> EMBEDDING_DIM,
                                error |-> IF procs[c].pc = "loading"
                                          THEN "load failed"
                                          ELSE "inference failed"]]
  /\ UNCHANGED <<store, disk, minContentLength, ops, lastRun, nonArchiveVars>>

Next ==
  \E c \in Callers :
    \/ \E path \in Paths : StartSession(c, path)
    \/ FilterSession(c)
    \/ ReadFail(c)
    \/ StartVerify(c)
    \/ VerifyLoaded(c)
    \/ VerifySucceed(c)
    \/ VerifyCatch(c)
    \/ PersistSession(c)
    \/ EmbedFail(c)
    \/ \E content \in ManualContents : StartContent(c, content)
    \/ PersistContent(c)
    \/ \E content \in ManualContents : Insert(c, content)

Spec == Init /\ [][Next]_vars

\* ----------------------------------------------------------- properties

Rows == 1..Len(store)
Finished(c, op) == procs[c].op = op /\ procs[c].pc = "done"
Items(c) == 1..Len(procs[c].contentToArchive)
ItemHash(c, i) == Hash(procs[c].contentToArchive[i].content)

\* C1: no two fragments of the store have the same contentHash, after any
\* sequence of archiveSession, archiveContent and insert operations.
C1_UniqueContentHash ==
  \A i, j \in Rows : i # j => store[i].contentHash # store[j].contentHash

\* C1 witness: two fragments are stored and some insert was answered "duplicate".
C1_Witness ==
  /\ Len(store) >= 2
  /\ \E c \in Callers :
       procs[c].pc = "done" /\ \E k \in 1..Len(procs[c].isDup) : procs[c].isDup[k]

\* C2: an insert of content whose hash is stored answers isDuplicate = TRUE
\* and leaves the store as it was; an insert of content whose hash is not
\* stored adds exactly one row, with an id no row had, and answers FALSE.
C2_InsertFrame ==
  [][\A c \in Callers :
       (procs'[c].op = "insert" /\ procs'[c] # procs[c]) =>
         LET h == Hash(procs'[c].content)
             n == Len(store)
         IN IF \E i \in Rows : store[i].contentHash = h
            THEN procs'[c].ret.isDuplicate /\ store' = store
            ELSE /\ ~procs'[c].ret.isDuplicate
                 /\ Len(store') = n + 1
                 /\ SubSeq(store', 1, n) = store
                 /\ store'[n + 1].contentHash = h
                 /\ store'[n + 1].id = procs'[c].ret.id
                 /\ \A i \in Rows : store[i].id # store'[n + 1].id]_vars

\* C2 witness: one direct insert created a fragment, another was a duplicate.
C2_Witness ==
  \E c, d \in Callers :
    /\ Finished(c, "insert") /\ ~procs[c].ret.isDuplicate
    /\ Finished(d, "insert") /\ procs[d].ret.isDuplicate

\* C3: when two archive operations both passed the pre-check for the same
\* content (each has it in contentToArchive, so each saw it absent before the
\* other inserted it) and both have returned, not both inserts created a
\* fragment, one of them answered isDuplicate, and the store holds exactly one
\* fragment of that hash.
C3_RacingInsertsDeduplicated ==
  \A c, d \in Callers :
    (c # d /\ procs[c].pc = "done" /\ procs[d].pc = "done") =>
      \A i \in Items(c), j \in Items(d) :
        ItemHash(c, i) = ItemHash(d, j) =>
          /\ procs[c].isDup[i] \/ procs[d].isDup[j]
          /\ Cardinality({k \in Rows : store[k].contentHash = ItemHash(c, i)}) = 1

\* C3 witness: an archiveSession and an archiveContent raced on one content;
\* one insert created the fragment, the other was answered "duplicate".
C3_Witness ==
  \E c, d \in Callers :
    /\ Finished(c, "session") /\ Finished(d, "content")
    /\ \E i \in Items(c), j \in Items(d) :
         /\ ItemHash(c, i) = ItemHash(d, j)
         /\ procs[c].isDup[i] # procs[d].isDup[j]

\* the chunks extractChunks produces from the assistant messages of a transcript
ChunkCandidates(path) ==
  LET messages == parseTranscript(path)
      IsAssistant(m) == m.role = "assistant"
      assistant == SelectSeq(messages, IsAssistant)
      RECURSIVE Count(_)
      Count(ms) == IF ms = <<>> THEN 0
                   ELSE Len(extractChunks(Head(ms).content)) + Count(Tail(ms))
  IN Count(assistant)

\* C4: the counters an archiveSession run returns add up to the number of
\* chunks the chunker produced from the transcript's assistant messages.
C4_CountersAddUp ==
  \A c \in Callers :
    Finished(c, "session") =>
      procs[c].result.archived + procs[c].result.skipped + procs[c].result.duplicates
        = ChunkCandidates(procs[c].path)

\* C4 witness: a run returned with all three counters positive.
C4_Witness ==
  \E c \in Callers :
    /\ Finished(c, "session")
    /\ procs[c].result.archived > 0
    /\ procs[c].result.skipped > 0
    /\ procs[c].result.duplicates > 0

\* the run of caller c archived the transcript that the run before it on this
\* store archived, with no write to the store in between
IsSecondRun(c) ==
  Finished(c, "session") /\ procs[c].prev.path = procs[c].path

\* C5 as claimed: the second run of a transcript returns archived = 0 and
\* duplicates = the archived count of the first run.
C5_SecondRunDuplicatesEqualFirstArchived ==
  \A c \in Callers :
    IsSecondRun(c) =>
      /\ procs[c].result.archived = 0
      /\ procs[c].result.duplicates = procs[c].prev.result.archived

\* C5 as amended: the second run of a transcript returns archived = 0 and
\* duplicates = archived + duplicates of the first run.
C5_SecondRunAllDuplicates ==
  \A c \in Callers :
    IsSecondRun(c) =>
      /\ procs[c].result.archived = 0
      /\ procs[c].result.duplicates
           = procs[c].prev.result.archived + procs[c].prev.result.duplicates

\* C5 witness: a second run whose first run archived a fragment and also met
\* a duplicate (the same chunk text twice in the transcript).
C5_Witness ==
  \E c \in Callers :
    /\ IsSecondRun(c)
    /\ procs[c].prev.result.archived > 0
    /\ procs[c].prev.result.duplicates > 0

\* C6 as claimed: archiving, into an empty store, the transcript of one
\* valuable assistant message and one message "thanks" returns archived = 1,
\* skipped = 1, duplicates = 0.
C6_EndToEndCounts ==
  \A c \in Callers :
    (Finished(c, "session") /\ procs[c].path = "e2e" /\ ops = 1) =>
      procs[c].result = [archived |-> 1, skipped |-> 1, duplicates |-> 0]

C8_StoredContentLength ==
  \A i \in Rows :
    store[i].sourceSession # <<"direct">> =>
      /\ TextLen(store[i].content) > 0
      /\ TextLen(store[i].content) >= MinLength(minContentLength)


\* ---------------------------------------------------------------------
\* Hybrid search: recall command, scope, ranked lists, rank fusion
\* ---------------------------------------------------------------------

UNDEFINED == "undefined"

\* Scores are exact fractions num/den with den > 0.
Frac(n, d) == [num |-> n, den |-> d]
FracAdd(x, y) == Frac(x.num * y.den + y.num * x.den, x.den * y.den)
FracMul(x, y) == Frac(x.num * y.num, x.den * y.den)
FracLess(x, y) == x.num * y.den < y.num * x.den
FracEq(x, y) == x.num * y.den = y.num * x.den

\* A stored fragment as one query sees it: its project, its age in days
\* at query time, how well the full-text index matches it (0: no match),
\* and how similar its embedding is to the query's.
Projects == {NULL, "projA", "projB"}
Ages == {0, HALF_LIFE_DAYS}
Relevances == 0..1
Similarities == 1..2
\* The fragments of the other project all look alike: recent, matching the
\* query in both rankers, so that they would head every ranking they enter.
MemoryRows ==
  {r \in [projectId : Projects, age : Ages, relevance : Relevances,
          similarity : Similarities] :
     r.projectId = "projB" =>
       (r.age = 0 /\ r.relevance = 1 /\ r.similarity = 2)}
Stores == UNION {[1..n -> MemoryRows] : n \in 0..MaxMemories}

Queries == {"", "auth"}
WorkingDirs == {NULL, "projA"}

\* S in the strict total order Before, as a sequence.
Sorted(S, Before(_, _)) ==
  LET ahead == [i \in S |-> Cardinality({j \in S : Before(j, i)})]
  IN  [k \in 1..Cardinality(S) |-> CHOOSE i \in S : ahead[i] = k - 1]

Newer(db, i, j) == db[i].age < db[j].age \/ (db[i].age = db[j].age /\ i < j)

InScope(row, options) ==
  \/ options.includeAllProjects
  \/ options.projectId = UNDEFINED
  \/ row.projectId = options.projectId
  \/ row.projectId = NULL

ScopedIds(db, options) == {i \in DOMAIN db : InScope(db[i], options)}

KeywordIndex(db, options) ==
  Sorted({i \in ScopedIds(db, options) : db[i].relevance > 0},
         LAMBDA i, j : \/ db[i].relevance > db[j].relevance
                       \/ /\ db[i].relevance = db[j].relevance
                          /\ Newer(db, i, j))

VectorRanker(db, options) ==
  Sorted(ScopedIds(db, options),
         LAMBDA i, j : \/ db[i].similarity > db[j].similarity
                       \/ /\ db[i].similarity = db[j].similarity
                          /\ Newer(db, i, j))

\* The 1-indexed rank of id in list, 0 when it is absent.
RankIn(list, id) ==
  IF \E k \in DOMAIN list : list[k] = id
  THEN CHOOSE k \in DOMAIN list : list[k] = id
  ELSE 0

RRFContributionZeroIndexed(rank) ==
  IF rank = 0 THEN Frac(0, 1) ELSE Frac(1, RRF_K + rank - 1)

RRFContribution(rank) ==
  IF rank = 0 THEN Frac(0, 1) ELSE Frac(1, RRF_K + rank)

BaseScore(keywordList, vectorList, id) ==
  FracAdd(RRFContribution(RankIn(keywordList, id)),
          RRFContribution(RankIn(vectorList, id)))

\* a decay falling in a straight line to nothing at two half-lives
RecencyDecayLinear(age) ==
  IF age >= 2 * HALF_LIFE_DAYS THEN Frac(0, 1)
  ELSE Frac(2 * HALF_LIFE_DAYS - age, 2 * HALF_LIFE_DAYS)

\* 2^(-ageInDays / halfLifeDays), for ages that are whole half-lives.
RecencyDecay(age) == Frac(1, 2 ^ (age \div HALF_LIFE_DAYS))

\* the final score: the base score weighted by recency
FinalScore(base, age) == FracMul(base, RecencyDecay(age))

\* the tag with the two single-list cases exchanged
SourceTagSwapped(keywordList, vectorList, id) ==
  IF RankIn(keywordList, id) # 0 /\ RankIn(vectorList, id) # 0 THEN "hybrid"
  ELSE IF RankIn(keywordList, id) # 0 THEN "vector"
  ELSE "keyword"

SourceTag(keywordList, vectorList, id) ==
  IF RankIn(keywordList, id) # 0 /\ RankIn(vectorList, id) # 0 THEN "hybrid"
  ELSE IF RankIn(keywordList, id) # 0 THEN "keyword"
  ELSE "vector"

Min(a, b) == IF a < b THEN a ELSE b
Max(a, b) == IF a < b THEN b ELSE a

\* the fragments that appear in at least one of the two lists
InLists(keywordList, vectorList) ==
  {keywordList[k] : k \in DOMAIN keywordList}
    \cup {vectorList[k] : k \in DOMAIN vectorList}

\* the SearchResult of one fragment
ResultFor(keywordList, vectorList, id, age, projectId) ==
  [id |-> id,
   score |-> FinalScore(BaseScore(keywordList, vectorList, id), age),
   source |-> SourceTag(keywordList, vectorList, id),
   age |-> age,
   projectId |-> projectId]

\* options.limit, 5 when the caller gives none (0)
EffectiveLimit(limit) == IF limit = 0 THEN RECALL_LIMIT ELSE limit

hybridSearch(db, query, options) ==
  LET keywordList == KeywordIndex(db, options)
      vectorList == VectorRanker(db, options)
      ids == InLists(keywordList, vectorList)
      score == [i \in ids |->
                  FinalScore(BaseScore(keywordList, vectorList, i), db[i].age)]
      ranked == Sorted(ids,
                  LAMBDA i, j : \/ FracLess(score[j], score[i])
                                \/ /\ FracEq(score[i], score[j])
                                   /\ Newer(db, i, j))
  IN  [k \in 1..Min(EffectiveLimit(options.limit), Len(ranked)) |->
         ResultFor(keywordList, vectorList, ranked[k],
                   db[ranked[k]].age, db[ranked[k]].projectId)]

\* a search that treats a store without rows as a failure
SearchOutcomeEmptyIsError(db, query, options) ==
  IF db = <<>> THEN [state |-> "error", results |-> <<>>]
  ELSE [state |-> "ok", results |-> hybridSearch(db, query, options)]

\* await hybridSearch(db, query, options): the call resolves with the results
SearchOutcome(db, query, options) ==
  [state |-> "ok", results |-> hybridSearch(db, query, options)]

\* the options of handleRecall with one result more than the command shows
HandleRecallOptionsLongerList(projectId, includeAll) ==
  [projectScope |-> ~includeAll,
   projectId |-> IF projectId = NULL THEN UNDEFINED ELSE projectId,
   includeAllProjects |-> includeAll,
   limit |-> RECALL_LIMIT + 1]

HandleRecallOptionsScopedAlways(projectId, includeAll) ==
  [projectScope |-> ~includeAll,
   projectId |-> IF projectId = NULL THEN UNDEFINED ELSE projectId,
   includeAllProjects |-> FALSE,
   limit |-> RECALL_LIMIT]

HandleRecallOptions(projectId, includeAll) ==
  [projectScope |-> ~includeAll,
   projectId |-> IF projectId = NULL THEN UNDEFINED ELSE projectId,
   includeAllProjects |-> includeAll,
   limit |-> RECALL_LIMIT]

\* cortex recall <query> [--all], run from working directory cwd.
handleRecall(query, includeAll, cwd) ==
  /\ request.state = "none"
  /\ IF query = ""
     THEN /\ request' = [projectId |-> NULL, includeAll |-> includeAll,
                         limit |-> RECALL_LIMIT, state |-> "usage"]
          /\ UNCHANGED results
     ELSE LET r == SearchOutcome(memories, query,
                                 HandleRecallOptions(cwd, includeAll))
          IN /\ request' = [projectId |-> cwd, includeAll |-> includeAll,
                            limit |-> RECALL_LIMIT,
                            state |-> IF r.state = "ok" THEN "searched"
                                      ELSE "error"]
             /\ results' = r.results
  /\ UNCHANGED <<memories, nonSearchVars>>

\* the options a program hands to hybridSearch itself: a limit or none (0),
\* all projects or not, and no project
DirectLimits == {0, TEST_LIMIT}
DirectOptions ==
  [projectScope : {FALSE}, projectId : {UNDEFINED},
   includeAllProjects : BOOLEAN, limit : DirectLimits]

\* hybridSearch(db, query, options) called by a program
Search(query, options) ==
  /\ request.state = "none"
  /\ LET r == SearchOutcome(memories, query, options)
     IN /\ request' = [projectId |-> IF options.projectId = UNDEFINED
                                     THEN NULL ELSE options.projectId,
                       includeAll |-> options.includeAllProjects,
                       limit |-> options.limit,
                       state |-> IF r.state = "ok" THEN "queried"
                                 ELSE "error"]
        /\ results' = r.results
  /\ UNCHANGED <<memories, nonSearchVars>>

\* stores with more rows than the default limit, of two kinds of row
CrowdRows ==
  {[projectId |-> NULL, age |-> 0, relevance |-> 1, similarity |-> 1],
   [projectId |-> "projA", age |-> 0, relevance |-> 1, similarity |-> 2]}
CrowdedStores == [1..(RECALL_LIMIT + 1) -> CrowdRows]

SearchInit ==
  /\ ArchiveIdle
  /\ minContentLength = MIN_CONTENT_LENGTH
  /\ memories \in Stores \cup CrowdedStores
  /\ request = NoRequest
  /\ results = <<>>
  /\ FusionIdle
  /\ ChunkIdle
  /\ EmbedderIdle
  /\ ProgressIdle
  /\ CommandIdle

SearchNext ==
  \/ \E query \in Queries, includeAll \in BOOLEAN, cwd \in WorkingDirs :
       handleRecall(query, includeAll, cwd)
  \/ \E options \in DirectOptions : Search("auth", options)

SearchSpec == SearchInit /\ [][SearchNext]_vars

ResultIds == {results[k].id : k \in DOMAIN results}
Searched == request.state = "searched"
EligibleIn(projectId) ==
  {i \in DOMAIN memories : memories[i].projectId \in {projectId, NULL}}

\* C9: a search with project id P and no global-search request returns
\* only fragments whose project is P or null, and every such fragment is
\* eligible (returned, up to the limit); a global search makes every
\* fragment of the store eligible.
C9_ScopeFiltering ==
  Searched =>
    /\ (request.projectId # NULL /\ ~request.includeAll) =>
         /\ ResultIds \subseteq EligibleIn(request.projectId)
         /\ Len(results) =
              Min(RECALL_LIMIT, Cardinality(EligibleIn(request.projectId)))
    /\ request.includeAll =>
         Len(results) = Min(RECALL_LIMIT, Len(memories))
    /\ Cardinality(ResultIds) = Len(results)

C9_Witness ==
  /\ Searched
  /\ request.projectId = "projA"
  /\ ~request.includeAll
  /\ \E i \in DOMAIN memories : memories[i].projectId = "projB"
  /\ \E i \in ResultIds : memories[i].projectId = NULL

\* ---------------------------------------------------------------------
\* Rank fusion on lists long enough for the constant k = 60 to matter
\* ---------------------------------------------------------------------

FragmentA == 1
FragmentB == 2

RankSamples == {0} \cup (1..MaxTopRank) \cup {FarRank, FarRank + 1}

\* A ranked list holding A at rank rankA and B at rank rankB (0: absent),
\* other fragments at the remaining positions.
ListWith(rankA, rankB) ==
  [k \in 1..Max(rankA, rankB) |->
     IF k = rankA THEN FragmentA
     ELSE IF k = rankB THEN FragmentB
     ELSE FragmentB + k]

AgeSamples == {k * HALF_LIFE_DAYS : k \in 0..MaxHalfLives}
AgeOf(id) == IF id = FragmentA THEN ages.a ELSE ages.b

\* the fusion of the two lists: the base scores of A and B, and the results
\* for those of A and B that the fusion returns
Fuse ==
  /\ fused.state = "none"
  /\ LET keywordList == ListWith(ranks.kwA, ranks.kwB)
         vectorList == ListWith(ranks.vecA, ranks.vecB)
         hits == {FragmentA, FragmentB} \cap InLists(keywordList, vectorList)
     IN  fused' = [state |-> "done",
                   a |-> BaseScore(keywordList, vectorList, FragmentA),
                   b |-> BaseScore(keywordList, vectorList, FragmentB),
                   hits |-> [i \in hits |->
                               ResultFor(keywordList, vectorList, i,
                                         AgeOf(i), NULL)]]
  /\ UNCHANGED <<ranks, ages, nonFusionVars>>

FusionInit ==
  /\ ArchiveIdle
  /\ minContentLength = MIN_CONTENT_LENGTH
  /\ SearchIdle
  /\ ranks \in [kwA : RankSamples, vecA : RankSamples,
                kwB : RankSamples, vecB : RankSamples]
  /\ ranks.kwA = 0 \/ ranks.kwA # ranks.kwB
  /\ ranks.vecA = 0 \/ ranks.vecA # ranks.vecB
  /\ ages \in [a : AgeSamples, b : AgeSamples]
  /\ ChunkIdle
  /\ EmbedderIdle
  /\ ProgressIdle
  /\ CommandIdle
  /\ fused = NoFused

FusionNext == Fuse

FusionSpec == FusionInit /\ [][FusionNext]_vars

Fused == fused.state = "done"
Outranks(rankA, rankB) == rankA # 0 /\ (rankB = 0 \/ rankA < rankB)
ListsOf(kw, vec) == (IF kw # 0 THEN 1 ELSE 0) + (IF vec # 0 THEN 1 ELSE 0)

\* num/den is the sum of 1/(60 + r) over the non-zero ranks kw and vec.
IsRRFSum(score, kw, vec) ==
  IF kw # 0 /\ vec # 0
  THEN score.num * (RRF_K + kw) * (RRF_K + vec)
         = score.den * (2 * RRF_K + kw + vec)
  ELSE IF kw # 0 THEN score.num * (RRF_K + kw) = score.den
  ELSE IF vec # 0 THEN score.num * (RRF_K + vec) = score.den
  ELSE score.num = 0

\* C10 as stated: a fragment's base fused score is the sum of 1/(60 + r)
\* over the lists where it appears at rank r; if A outranks B in both
\* lists, or A appears in more lists than B, A's fused score is at least
\* B's.
C10_MoreListsOrBetterRanks ==
  Fused =>
    /\ IsRRFSum(fused.a, ranks.kwA, ranks.vecA)
    /\ IsRRFSum(fused.b, ranks.kwB, ranks.vecB)
    /\ (\/ /\ Outranks(ranks.kwA, ranks.kwB)
           /\ Outranks(ranks.vecA, ranks.vecB)
        \/ ListsOf(ranks.kwA, ranks.vecA) > ListsOf(ranks.kwB, ranks.vecB))
         => ~FracLess(fused.a, fused.b)

\* C10, amended: a fragment's base fused score is the sum of 1/(60 + r)
\* over the lists where it appears at rank r; if A is ranked above B in
\* every list in which B appears, A's fused score is at least B's.
C10_BetterRankWhereverBAppears ==
  Fused =>
    /\ IsRRFSum(fused.a, ranks.kwA, ranks.vecA)
    /\ IsRRFSum(fused.b, ranks.kwB, ranks.vecB)
    /\ (/\ ranks.kwB # 0 => Outranks(ranks.kwA, ranks.kwB)
        /\ ranks.vecB # 0 => Outranks(ranks.vecA, ranks.vecB))
         => ~FracLess(fused.a, fused.b)

C10_Witness ==
  /\ Fused
  /\ ranks.kwB # 0 /\ Outranks(ranks.kwA, ranks.kwB)
  /\ ranks.vecB >= FarRank /\ Outranks(ranks.vecA, ranks.vecB)
  /\ FracLess(fused.b, fused.a)


\* ---------------------------------------------------------------------
\* Recency, order and limit, source tags, the empty store
\* ---------------------------------------------------------------------

RankOf(id) ==
  IF id = FragmentA THEN [kw |-> ranks.kwA, vec |-> ranks.vecA]
  ELSE [kw |-> ranks.kwB, vec |-> ranks.vecB]
BaseOf(id) == IF id = FragmentA THEN fused.a ELSE fused.b
BothReturned == DOMAIN fused.hits = {FragmentA, FragmentB}

\* C11: the final score is the base score times 2^(-ageInDays / 7); of two
\* fragments with the same base score and different timestamps the more
\* recent has the strictly higher final score; a positive base score never
\* gives a final score of 0.
C11_RecencyMonotonicity ==
  Fused =>
    /\ \A i \in DOMAIN fused.hits :
         LET x == fused.hits[i]
             base == BaseOf(i)
         IN /\ x.score.num * base.den * (2 ^ (AgeOf(i) \div HALF_LIFE_DAYS))
                 = x.score.den * base.num
            /\ base.num > 0 => x.score.num > 0
    /\ \A i, j \in DOMAIN fused.hits :
         (FracEq(BaseOf(i), BaseOf(j)) /\ AgeOf(i) < AgeOf(j))
           => FracLess(fused.hits[j].score, fused.hits[i].score)

C11_Witness ==
  /\ Fused
  /\ BothReturned
  /\ FracEq(fused.a, fused.b)
  /\ ages.a >= 2 * HALF_LIFE_DAYS
  /\ ages.b < ages.a
  /\ FracLess(fused.hits[FragmentA].score, fused.hits[FragmentB].score)
  /\ fused.hits[FragmentA].score.num > 0

Answered == request.state \in {"searched", "queried"}

\* the order of the results: higher final score, then the more recent
\* fragment, then the lower id
ResultBefore(x, y) ==
  \/ FracLess(y.score, x.score)
  \/ /\ FracEq(x.score, y.score)
     /\ \/ x.age < y.age
        \/ x.age = y.age /\ x.id < y.id

RequestLimit == IF request.limit = 0 THEN RECALL_LIMIT ELSE request.limit

\* every fragment the request can see, ranked, with no limit
Unlimited ==
  hybridSearch(memories, "auth",
               [projectScope |-> FALSE,
                projectId |-> IF request.projectId = NULL THEN UNDEFINED
                              ELSE request.projectId,
                includeAllProjects |-> request.includeAll,
                limit |-> Len(memories) + 1])

C13_SourceTags ==
  Fused =>
    /\ \A i \in DOMAIN fused.hits :
         LET x == fused.hits[i]
             r == RankOf(i)
         IN /\ x.source = "vector" <=> (r.kw = 0 /\ r.vec # 0)
            /\ x.source = "keyword" <=> (r.kw # 0 /\ r.vec = 0)
            /\ x.source = "hybrid" <=> (r.kw # 0 /\ r.vec # 0)
    /\ \A i \in {FragmentA, FragmentB} :
         i \in DOMAIN fused.hits <=> (RankOf(i).kw # 0 \/ RankOf(i).vec # 0)

C13_Witness ==
  /\ Fused
  /\ ranks.kwA # 0 /\ ranks.vecA = 0
  /\ ranks.kwB = 0 /\ ranks.vecB = 0
  /\ DOMAIN fused.hits = {FragmentA}
  /\ fused.hits[FragmentA].source = "keyword"

Ended(c) == procs[c].pc \in {"done", "failed"}
Returned(c) == procs[c].pc = "done"

\* C15: when the embedding provider fails in an archiveSession run, the run
\* aborts and returns the counts accumulated so far: it ends by returning a
\* result that holds the skipped and duplicate counts of the filter loop and
\* no archived fragment.
C15_ErrorReturnsCounts ==
  \A c \in Callers :
    (procs[c].op = "session" /\ procs[c].contentToArchive # <<>> /\ Ended(c))
      => /\ Returned(c)
         /\ procs[c].result.skipped
              = FilterLoop(<<>>, procs[c].messages, procs[c].minLength).skipped

\* C16: on a transcript file that is missing or cannot be read,
\* archiveSession does not fail: it returns archived = skipped = duplicates
\* = 0 and has neither called the embedding provider nor inserted or saved.
C16_MissingOrUnreadable ==
  \A c \in Callers :
    (procs[c].op = "session" /\ procs[c].path \in {"missing", "locked"}
       /\ procs[c].pc # "parsing")
      => /\ Returned(c)
         /\ procs[c].result = ZeroResult
         /\ procs[c].contentToArchive = <<>>

WellFormed(lines) == SelectSeq(lines, LAMBDA l : l.kind = "msg")
Parsed(c) ==
  /\ procs[c].op = "session"
  /\ procs[c].pc \in {"embedding", "done", "failed"}
  /\ procs[c].messages # <<>>

\* C17: a line that does not parse as a message is skipped and the run goes
\* on: the messages of a transcript are those of the transcript with every
\* malformed or blank line removed, in the same order.
C17_MalformedLinesSkipped ==
  \A c \in Callers :
    Parsed(c) =>
      LET lines == FileOf(procs[c].path)
          clean == WellFormed(lines)
          texts == SelectSeq(clean, LAMBDA l : l.paras # <<>>)
      IN /\ procs[c].messages = parseLines(clean)
         /\ Len(procs[c].messages) = Len(texts)
         /\ \A i \in 1..Len(texts) :
              /\ procs[c].messages[i].role = texts[i].role
              /\ procs[c].messages[i].content = texts[i].paras

C17_Witness ==
  \E c \in Callers :
    /\ Parsed(c)
    /\ Returned(c)
    /\ procs[c].path = "mixed"
    /\ \E i \in 1..Len(FileOf("mixed")) :
         /\ FileOf("mixed")[i].kind = "bad"
         /\ i < Len(FileOf("mixed"))
    /\ Len(procs[c].messages) = Len(FileOf("mixed")) - 1
    /\ procs[c].result.archived = 1

\* C18: verifyModel never throws: when loading the model or producing the
\* test embedding fails it returns success = false with the model name and
\* the error message, and it returns success = true only after an embedding
\* was produced.
C18_VerifyModelNeverThrows ==
  \A c \in Callers :
    procs[c].op = "verify" =>
      /\ procs[c].pc # "failed"
      /\ Returned(c) =>
           IF procs[c].status.success
           THEN /\ procs[c].embedded
                /\ procs[c].status.dimensions = EMBEDDING_DIM
           ELSE /\ ~procs[c].embedded
                /\ procs[c].status.model = MODEL_NAME
                /\ procs[c].status.error # ""

C18_Witness ==
  \E c, d \in Callers :
    /\ procs[c].op = "verify" /\ Returned(c)
    /\ ~procs[c].status.success
    /\ procs[c].status.error = "inference failed"
    /\ procs[d].op = "verify" /\ Returned(d)
    /\ procs[d].status.success

\* C19: when the embedding provider fails in an archiveSession or
\* archiveContent call, the failure goes to the caller and the store is as
\* it was: every fragment is still there unchanged, and nothing of the
\* failed call is inserted or saved.
C19_EmbedFailureLeavesStore ==
  [][\A c \in Callers :
       (procs[c].pc = "embedding" /\ procs'[c].pc = "failed")
         => /\ store' = store
            /\ disk' = disk]_vars

C19_Witness ==
  \E c, d \in Callers :
    /\ procs[c].pc = "failed"
    /\ procs[c].op = "session"
    /\ procs[c].contentToArchive # <<>>
    /\ procs[d].pc = "failed"
    /\ procs[d].op = "content"
    /\ Len(store) = 0

\* C20: an archive operation that inserts at least one fragment and returns
\* has flushed the store after its last insert and before returning: at its
\* return the saved table is the store.
C20_FlushedBeforeReturn ==
  [][\A c \in Callers :
       (procs[c].pc = "embedding" /\ procs'[c].pc = "done"
          /\ Len(store') > Len(store))
         => disk' = store']_vars

C20_Witness ==
  \E c, d \in Callers :
    /\ Finished(c, "content")
    /\ procs[c].ret.success
    /\ Finished(d, "session")
    /\ procs[d].result.archived > 0
    /\ disk = store
    /\ Len(store) >= 2


\* ---------------------------------------------------------------------
\* One archive run: session id, insertion order, states, chunk lengths
\* ---------------------------------------------------------------------

\* the rows a step adds to the store
NewRows == (Len(store) + 1)..Len(store')
PersistStep(c) == procs[c].pc = "embedding" /\ procs'[c].pc = "done"

\* the file name of a transcript without its extension
FileStem(path) == IF path = "long" THEN <<"long", "v2">> ELSE <<path>>

\* C21: all fragments one archiveSession run inserts carry the same
\* sourceSession, the transcript's file name with its extension stripped;
\* fragments inserted by archiveContent carry 'manual'.
C21_SourceSession ==
  [][\A c \in Callers :
       PersistStep(c) =>
         \A i \in NewRows :
           store'[i].sourceSession =
             IF procs[c].op = "session" THEN FileStem(procs[c].path)
             ELSE <<"manual">>]_vars

C21_Witness ==
  /\ \E i, j \in Rows :
       /\ i # j
       /\ store[i].sourceSession = <<"long", "v2">>
       /\ store[j].sourceSession = <<"long", "v2">>
  /\ \E i \in Rows : store[i].sourceSession = <<"manual">>

\* the items of a run that its insert loop stored, in order
StoredItems(c) ==
  LET items == procs'[c].contentToArchive
      kept == {i \in 1..Len(items) : ~procs'[c].isDup[i]}
  IN [k \in 1..Cardinality(kept) |->
        items[CHOOSE i \in kept : Cardinality({j \in kept : j < i}) = k - 1]]

\* the chunks of the assistant messages of a transcript, in transcript order
\* and in paragraph and sentence order within a message
RECURSIVE ChunksInOrder(_)
ChunksInOrder(messages) ==
  IF messages = <<>> THEN <<>>
  ELSE (IF Head(messages).role = "assistant"
        THEN extractChunks(Head(messages).content) ELSE <<>>)
       \o ChunksInOrder(Tail(messages))

\* a is b with some of its entries left out
RECURSIVE IsSubsequence(_, _)
IsSubsequence(a, b) ==
  IF a = <<>> THEN TRUE
  ELSE IF b = <<>> THEN FALSE
  ELSE IF Head(a) = Head(b) THEN IsSubsequence(Tail(a), Tail(b))
  ELSE IsSubsequence(a, Tail(b))

\* C24: one archiveSession run inserts its fragments in the order their
\* chunks were produced, and the i-th inserted fragment carries the
\* embedding of the i-th chunk text: embedBatch returns one vector per text,
\* in input order.
C24_InsertionOrder ==
  [][\A c \in Callers :
       (PersistStep(c) /\ procs[c].op = "session") =>
         LET kept == StoredItems(c)
             texts == [i \in 1..Len(procs[c].contentToArchive) |->
                         procs[c].contentToArchive[i].content]
         IN /\ Len(store') - Len(store) = Len(kept)
            /\ \A k \in 1..Len(kept) :
                 LET row == store'[Len(store) + k]
                 IN /\ row.content = Trim(kept[k].content)
                    /\ row.embedding.text = kept[k].content
            /\ IsSubsequence(texts, ChunksInOrder(procs[c].messages))
            /\ Len(embedBatch(texts)) = Len(texts)]_vars

C24_Witness ==
  \E c \in Callers :
    /\ Finished(c, "session")
    /\ procs[c].path = "multi"
    /\ procs[c].result.archived >= 2
    /\ \E i \in Rows :
         /\ i + 1 \in Rows
         /\ store[i].content = procs[c].contentToArchive[1].content
         /\ store[i + 1].content = procs[c].contentToArchive[2].content
         /\ store[i + 1].embedding.text = store[i + 1].content
         /\ store[i].content # store[i + 1].content


\* the states of a run in the order the state machine lists them
StateRank(w) ==
  CASE w = "Parsing" -> 1 [] w = "Extracting" -> 2 [] w = "Filtering" -> 3
    [] w = "Deduping" -> 4 [] w = "Embedding" -> 5 [] w = "Persisting" -> 6
    [] w = "Done" -> 7

\* the same with the three states of the message loop taken as one
StageRank(w) ==
  CASE w = "Parsing" -> 1
    [] w \in {"Extracting", "Filtering", "Deduping"} -> 2
    [] w = "Embedding" -> 3 [] w = "Persisting" -> 4 [] w = "Done" -> 5

SessionRuns == {c \in Callers : procs[c].op = "session"}

\* C25 as stated: once a run has done work of a later state it never again
\* does work of an earlier one.
C25_NoBackwardTransition ==
  \A c \in SessionRuns :
    LET t == procs[c].trace
    IN \A i, j \in DOMAIN t : i < j => StateRank(t[i]) <= StateRank(t[j])

\* C25: a run parses first and once; extracting, filtering and deduping
\* alternate message by message and chunk by chunk (a chunk is deduped right
\* after it passed the filters, and only chunks of an extracted message are
\* filtered); all of that is over before the one embedding call, which comes
\* before every insert, and Done comes last and once.
C25_StagesInOrder ==
  \A c \in SessionRuns :
    LET t == procs[c].trace
    IN /\ t # <<>> /\ t[1] = "Parsing"
       /\ \A i, j \in DOMAIN t : i < j => StageRank(t[i]) <= StageRank(t[j])
       /\ \A i \in DOMAIN t :
            /\ t[i] = "Parsing" => i = 1
            /\ t[i] = "Deduping" => t[i - 1] = "Filtering"
            /\ t[i] = "Filtering" => \E j \in 1..(i - 1) : t[j] = "Extracting"
            /\ t[i] = "Done" => i = Len(t) /\ procs[c].pc = "done"
            /\ t[i] = "Persisting" => \E j \in 1..(i - 1) : t[j] = "Embedding"
       /\ Cardinality({i \in DOMAIN t : t[i] = "Embedding"}) <= 1
       /\ procs[c].pc = "done" => t[Len(t)] = "Done"

C25_Witness ==
  \E c \in SessionRuns :
    LET t == procs[c].trace
    IN /\ procs[c].pc = "done"
       /\ \E i, j, k, l \in DOMAIN t :
            /\ i < j /\ j < k /\ k < l
            /\ t[i] = "Deduping" /\ t[j] = "Extracting"
            /\ t[k] = "Embedding" /\ t[l] = "Persisting"


\* ---------------------------------------------------------------------
\* extractChunks on one paragraph
\* ---------------------------------------------------------------------

MaxSentences == 5

\* the sentences paragraphs are made of here: short and long ones, one that
\* fills a chunk to the limit exactly, one longer than a whole chunk
ChunkSentences == {"jwt", "mig", "thanks", "long", "edge", "huge"}

Paragraphs ==
  {Text(sents, pad) :
     sents \in UNION {[1..n -> ChunkSentences] : n \in 0..MaxSentences},
     pad \in BOOLEAN}

\* extractChunks(content) for a content of one paragraph
ExtractChunks ==
  /\ extracted.state = "none"
  /\ extracted' = [state |-> "done", chunks |-> extractChunks(<<paragraph>>)]
  /\ UNCHANGED <<paragraph, nonChunkVars>>

ChunkInit ==
  /\ ArchiveIdle
  /\ minContentLength = MIN_CONTENT_LENGTH
  /\ SearchIdle
  /\ FusionIdle
  /\ paragraph \in Paragraphs
  /\ extracted = NoChunks
  /\ EmbedderIdle
  /\ ProgressIdle
  /\ CommandIdle

ChunkNext == ExtractChunks

ChunkSpec == ChunkInit /\ [][ChunkNext]_vars

Extracted == extracted.state = "done"
TrimmedLength == TextLen(Trim(paragraph))

\* a chunk without its last sentence has at most 800 characters
WithinLimitButLast(chunk) ==
  JoinedLen(SubSeq(chunk.sents, 1, Len(chunk.sents) - 1)) <= CHUNK_LIMIT

\* the bounds on the chunks of the split path
SplitPathBounds ==
  (Extracted /\ TrimmedLength > LONG_PARAGRAPH) =>
    \A i \in DOMAIN extracted.chunks :
      /\ TextLen(extracted.chunks[i]) >= MIN_CONTENT_LENGTH
      /\ WithinLimitButLast(extracted.chunks[i])

\* C26 as stated: on the split path every chunk has the minimum length and
\* none exceeds 800 characters by more than its last sentence; a paragraph
\* of at most 1000 characters comes out as exactly one chunk, trimmed.
C26_EveryShortParagraphOneChunk ==
  /\ SplitPathBounds
  /\ (Extracted /\ TrimmedLength <= LONG_PARAGRAPH) =>
       extracted.chunks = <<Trim(paragraph)>>

\* C26: on the split path every chunk has the minimum length and none
\* exceeds 800 characters by more than its last sentence; a paragraph whose
\* trimmed length is at least the minimum and at most 1000 characters comes
\* out as exactly one chunk, trimmed, and a shorter paragraph as no chunk.
C26_ChunkLengthBound ==
  /\ SplitPathBounds
  /\ (Extracted /\ TrimmedLength <= LONG_PARAGRAPH
                /\ TrimmedLength >= MIN_CONTENT_LENGTH) =>
       extracted.chunks = <<Trim(paragraph)>>
  /\ (Extracted /\ TrimmedLength < MIN_CONTENT_LENGTH) => extracted.chunks = <<>>

\* C26 witness: a long paragraph came out as several chunks, one of them of
\* several sentences and more than 800 characters, and its last sentence,
\* too short for a chunk, in none.
C26_Witness ==
  /\ Extracted
  /\ TrimmedLength > LONG_PARAGRAPH
  /\ Len(extracted.chunks) >= 2
  /\ \E i \in DOMAIN extracted.chunks :
       /\ Len(extracted.chunks[i].sents) >= 2
       /\ TextLen(extracted.chunks[i]) > CHUNK_LIMIT
  /\ paragraph.sents[Len(paragraph.sents)] = "thanks"
  /\ \A i \in DOMAIN extracted.chunks :
       \A k \in DOMAIN extracted.chunks[i].sents :
         extracted.chunks[i].sents[k] # "thanks"


\* ---------------------------------------------------------------------
\* The pre-check against the insert's own duplicate check
\* ---------------------------------------------------------------------

\* archiveSession without the contentExists pre-check, on the store db: the
\* filter loop never finds a chunk in the store, every chunk that passed the
\* filters is embedded, and the insert loop alone tells the duplicates
WithoutPreCheck(db, messages, minLength, projectId, sessionId) ==
  LET f == FilterLoop(<<>>, messages, minLength)
      texts == [i \in 1..Len(f.contentToArchive) |-> f.contentToArchive[i].content]
      r == InsertLoop(db, f.contentToArchive, embedBatch(texts),
                      projectId, sessionId, <<>>)
  IN [db |-> r.db,
      result |-> [archived |-> CountFalse(r.isDup),
                  skipped |-> f.skipped,
                  duplicates |-> CountTrue(r.isDup)]]

\* C27: the contentExists pre-check is only an optimization: a run returns
\* the counts, and leaves the store, that the same run without the pre-check
\* would, and it sends no chunk to the embedder whose content the store held
\* when the pre-check looked.
C27_PreCheckIsOptimization ==
  [][\A c \in Callers :
       /\ (procs[c].op = "session" /\ procs[c].pc \in {"parsing", "embedding"}
                                   /\ procs'[c].pc = "done") =>
            LET w == WithoutPreCheck(store, procs'[c].messages,
                                     procs'[c].minLength, CallerProject(c),
                                     getSessionId(procs'[c].path))
            IN /\ w.result = procs'[c].result
               /\ w.db = store'
       /\ (procs[c].pc = "parsing" /\ procs'[c].pc = "embedding") =>
            \A i \in 1..Len(procs'[c].contentToArchive) :
              ~contentExists(store, procs'[c].contentToArchive[i].content)]_vars

\* C27 witness: a run found chunks in the store at the pre-check, embedded
\* and archived another, and returned.
C27_Witness ==
  \E c \in Callers :
    /\ Finished(c, "session")
    /\ procs[c].preDuplicates > 0
    /\ procs[c].result.archived > 0
    /\ procs[c].result.duplicates >= procs[c].preDuplicates


\* ---------------------------------------------------------------------
\* The embedder: initEmbedder and the model load
\* ---------------------------------------------------------------------

MaxLoads == 3

\* a load that starts: the import first, unless the pipeline function is cached
NewLoad == [state |-> IF pipelineFunc THEN "building" ELSE "importing"]

\* initEmbedder that starts a load whenever no embedder is there yet
initEmbedderAlwaysLoads(c) ==
  /\ calls[c].pc \in {"idle", "resolved", "rejected"}
  /\ IF embedder # NoEmbedder
     THEN /\ calls' = [calls EXCEPT ![c] =
                 [pc |-> "resolved", promise |-> NoPromise, value |-> embedder]]
          /\ UNCHANGED <<initPromise, loads>>
     ELSE /\ Len(loads) < MaxLoads
          /\ loads' = Append(loads, NewLoad)
          /\ initPromise' = Len(loads) + 1
          /\ calls' = [calls EXCEPT ![c] =
                 [pc |-> "waiting", promise |-> Len(loads) + 1, value |-> NoEmbedder]]
  /\ UNCHANGED <<embedder, pipelineFunc, nonEmbedderVars>>

\* initEmbedder(), up to its return: the embedder if there is one, else the
\* pending promise if there is one, else the promise of a load it starts
initEmbedder(c) ==
  /\ calls[c].pc \in {"idle", "resolved", "rejected"}
  /\ IF embedder # NoEmbedder
     THEN /\ calls' = [calls EXCEPT ![c] =
                 [pc |-> "resolved", promise |-> NoPromise, value |-> embedder]]
          /\ UNCHANGED <<initPromise, loads>>
     ELSE IF initPromise # NoPromise
     THEN /\ calls' = [calls EXCEPT ![c] =
                 [pc |-> "waiting", promise |-> initPromise, value |-> NoEmbedder]]
          /\ UNCHANGED <<initPromise, loads>>
     ELSE /\ Len(loads) < MaxLoads
          /\ loads' = Append(loads, NewLoad)
          /\ initPromise' = Len(loads) + 1
          /\ calls' = [calls EXCEPT ![c] =
                 [pc |-> "waiting", promise |-> Len(loads) + 1, value |-> NoEmbedder]]
  /\ UNCHANGED <<embedder, pipelineFunc, nonEmbedderVars>>

\* loadTransformers: the import resolved, the pipeline function is cached
ImportSucceed(l) ==
  /\ loads[l].state = "importing"
  /\ pipelineFunc' = TRUE
  /\ loads' = [loads EXCEPT ![l].state = "building"]
  /\ UNCHANGED <<embedder, initPromise, calls, nonEmbedderVars>>

\* pipeline('feature-extraction', ...) resolved: the embedder is set and the
\* promise of the load resolves with it
LoadSucceed(l) ==
  /\ loads[l].state = "building"
  /\ embedder' = l
  /\ loads' = [loads EXCEPT ![l].state = "resolved"]
  /\ UNCHANGED <<initPromise, pipelineFunc, calls, nonEmbedderVars>>

\* a failed load that leaves its rejected promise in initPromise
LoadFailKeepPending(l) ==
  /\ loads[l].state \in {"importing", "building"}
  /\ loads' = [loads EXCEPT ![l].state = "rejected"]
  /\ UNCHANGED <<embedder, initPromise, pipelineFunc, calls, nonEmbedderVars>>

\* the import or the pipeline construction failed: the catch block clears
\* initPromise and the promise of the load rejects
LoadFail(l) ==
  /\ loads[l].state \in {"importing", "building"}
  /\ initPromise' = NoPromise
  /\ loads' = [loads EXCEPT ![l].state = "rejected"]
  /\ UNCHANGED <<embedder, pipelineFunc, calls, nonEmbedderVars>>

\* a caller's await of the promise it was handed: it gets the promise's outcome
Settle(c) ==
  /\ calls[c].pc = "waiting"
  /\ loads[calls[c].promise].state \in {"resolved", "rejected"}
  /\ calls' = [calls EXCEPT ![c] =
       IF loads[calls[c].promise].state = "resolved"
       THEN [pc |-> "resolved", promise |-> calls[c].promise,
             value |-> calls[c].promise]
       ELSE [pc |-> "rejected", promise |-> calls[c].promise, value |-> NoEmbedder]]
  /\ UNCHANGED <<embedder, initPromise, pipelineFunc, loads, nonEmbedderVars>>

\* isEmbedderReady()
isEmbedderReady == embedder # NoEmbedder

EmbedderInit ==
  /\ ArchiveIdle
  /\ minContentLength = MIN_CONTENT_LENGTH
  /\ SearchIdle
  /\ FusionIdle
  /\ ChunkIdle
  /\ EmbedderIdle
  /\ ProgressIdle
  /\ CommandIdle

EmbedderNext ==
  \/ \E c \in Clients : initEmbedder(c)
  \/ \E l \in DOMAIN loads : ImportSucceed(l)
  \/ \E l \in DOMAIN loads : LoadSucceed(l)
  \/ \E l \in DOMAIN loads : LoadFail(l)
  \/ \E c \in Clients : Settle(c)

EmbedderSpec == EmbedderInit /\ [][EmbedderNext]_vars

Pending(l) == loads[l].state \in {"importing", "building"}
PendingLoads == {l \in DOMAIN loads : Pending(l)}
ResolvedLoads == {l \in DOMAIN loads : loads[l].state = "resolved"}

\* at most one load is under way, and it is the one initPromise holds; no
\* load is under way once there is an embedder; there is one embedder at
\* most, and every caller that got an embedder got that one; initPromise
\* never holds the promise of a failed load
SingletonState ==
  /\ Cardinality(PendingLoads) <= 1
  /\ \A l \in PendingLoads : initPromise = l /\ embedder = NoEmbedder
  /\ Cardinality(ResolvedLoads) <= 1
  /\ \A l \in ResolvedLoads : embedder = l
  /\ \A c \in Clients : calls[c].pc = "resolved" => calls[c].value = embedder
  /\ initPromise # NoPromise => loads[initPromise].state # "rejected"
  /\ \A c \in Clients :
       (calls[c].pc = "waiting" /\ Pending(calls[c].promise)) =>
         calls[c].promise = initPromise

\* a step of the embedder: calls made while a load is under way join it;
\* once there is an embedder it stays and no load starts; a caller waiting
\* for a load that failed gets the failure; a call made after a failed load,
\* with none pending, starts a fresh one
SingletonStep ==
  /\ PendingLoads # {} => Len(loads') = Len(loads)
  /\ isEmbedderReady => embedder' = embedder /\ loads' = loads
  /\ \A c \in Clients :
       /\ (calls[c].pc = "waiting" /\ calls'[c].pc # "waiting") =>
            calls'[c].pc = (IF loads[calls[c].promise].state = "rejected"
                            THEN "rejected" ELSE "resolved")
       /\ (calls[c].pc # "waiting" /\ calls'[c].pc = "waiting"
             /\ embedder = NoEmbedder /\ PendingLoads = {}) =>
            /\ Len(loads') = Len(loads) + 1
            /\ calls'[c].promise \notin DOMAIN loads
            /\ loads'[calls'[c].promise].state \in {"importing", "building"}
            /\ initPromise' = calls'[c].promise

\* C28: the embedder is a lazily initialised singleton of the process:
\* overlapping initEmbedder calls made before the first load finishes start
\* one load and resolve to the same embedder; after a successful load no
\* load is started and isEmbedderReady stays true; after a failed load every
\* waiting caller gets the failure, the pending state is cleared, and a
\* later call starts a fresh load.
C28_LazySingleton == []SingletonState /\ [][SingletonStep]_vars

\* C28 witness: the first load failed with two callers waiting, both got the
\* failure; a second load, started by a later call and joined by another,
\* succeeded, and both its callers hold the one embedder.
C28_Witness ==
  /\ Len(loads) = 2
  /\ loads[1].state = "rejected"
  /\ loads[2].state = "resolved"
  /\ isEmbedderReady
  /\ \E c, d \in Clients :
       /\ c # d
       /\ calls[c].pc = "resolved" /\ calls[c].promise = 2
       /\ calls[d].pc = "resolved" /\ calls[d].promise = 2
  /\ \E c \in Clients : calls[c].pc = "rejected" /\ calls[c].promise = 1


\* ---------------------------------------------------------------------
\* The progress callback of one archiveSession run
\* ---------------------------------------------------------------------

MaxTexts == 70

\* embedBatch: batchSize = 32
BATCH_SIZE == 32

\* the end of the batch that starts at index i, of n texts
BatchEnd(i, n) == Min(i + BATCH_SIZE, n)

\* a report of the batch's nominal end, beyond the texts there are
ReportNominalEnd(i, n) ==
  [completed |-> i + BATCH_SIZE, total |-> n, phase |-> batch.phase]

\* what onProgress is called with after the batch starting at i
Report(i, n) ==
  [completed |-> BatchEnd(i, n), total |-> n, phase |-> batch.phase]

\* archiveSession after its message loop: it returns when contentToArchive
\* is empty, and calls embedBatch with the texts and the callback otherwise
CallEmbedBatch ==
  /\ batch.phase = "filtered"
  /\ batch' = [batch EXCEPT !.phase = IF batch.total = 0 THEN "done"
                                      ELSE "embedding"]
  /\ UNCHANGED <<reports, nonProgressVars>>

\* embedBatch: one text embedded; after the last text of a batch the
\* callback is called and the loop goes on to the next batch, or embedBatch
\* returns
EmbedText ==
  /\ batch.phase = "embedding"
  /\ batch.results < BatchEnd(batch.i, batch.total)
  /\ IF batch.results + 1 < BatchEnd(batch.i, batch.total)
     THEN /\ batch' = [batch EXCEPT !.results = batch.results + 1]
          /\ UNCHANGED reports
     ELSE /\ reports' = Append(reports, Report(batch.i, batch.total))
          /\ batch' = [batch EXCEPT
                         !.results = batch.results + 1,
                         !.i = batch.i + BATCH_SIZE,
                         !.phase = IF batch.i + BATCH_SIZE < batch.total
                                   THEN "embedding" ELSE "persisting"]
  /\ UNCHANGED nonProgressVars

\* the embedding provider fails on a text: embedBatch and the run throw
EmbedTextFail ==
  /\ batch.phase = "embedding"
  /\ batch' = [batch EXCEPT !.phase = "failed"]
  /\ UNCHANGED <<reports, nonProgressVars>>

\* archiveSession after embedBatch: the insert loop, saveDb, return
PersistAll ==
  /\ batch.phase = "persisting"
  /\ batch' = [batch EXCEPT !.phase = "done"]
  /\ UNCHANGED <<reports, nonProgressVars>>

ProgressInit ==
  /\ ArchiveIdle
  /\ minContentLength = MIN_CONTENT_LENGTH
  /\ SearchIdle
  /\ FusionIdle
  /\ ChunkIdle
  /\ EmbedderIdle
  /\ batch \in [phase : {"filtered"}, total : 0..MaxTexts, i : {0}, results : {0}]
  /\ reports = <<>>
  /\ CommandIdle

ProgressNext ==
  \/ CallEmbedBatch
  \/ EmbedText
  \/ EmbedTextFail
  \/ PersistAll

ProgressSpec == ProgressInit /\ [][ProgressNext]_vars

\* C29: the progress callback is called only while the run is embedding,
\* with total the number of chunks being embedded and completed strictly
\* increasing from call to call and never above total; once the embedding
\* is over the last call was (total, total); a run with nothing to embed
\* never calls it.
C29_ProgressReports ==
  /\ \A k \in DOMAIN reports :
       /\ reports[k].phase = "embedding"
       /\ reports[k].total = batch.total
       /\ reports[k].completed >= 1
       /\ reports[k].completed <= reports[k].total
       /\ reports[k].completed <= batch.results
       /\ k > 1 => reports[k - 1].completed < reports[k].completed
  /\ (batch.phase \in {"persisting", "done"} /\ batch.total > 0) =>
       /\ reports # <<>>
       /\ reports[Len(reports)].completed = batch.total
       /\ reports[Len(reports)].total = batch.total
  /\ batch.phase = "done" => batch.results = batch.total
  /\ batch.total = 0 => reports = <<>>
  /\ batch.phase = "filtered" => reports = <<>>

\* C29 witness: a run of 70 chunks returned after three calls, (32, 70),
\* (64, 70) and (70, 70).
C29_Witness ==
  /\ batch.phase = "done"
  /\ batch.total = 70
  /\ Len(reports) = 3
  /\ reports[1].completed = 32
  /\ reports[2].completed = 64
  /\ reports[3].completed = 70


\* ---------------------------------------------------------------------
\* The configuration and the command router
\* ---------------------------------------------------------------------

MaxRuns == 2

DEFAULT_STATUSLINE_CONFIG ==
  Obj([k \in {"enabled", "showFragments", "showLastArchive", "showContext",
              "contextWarningThreshold"} |->
         IF k = "contextWarningThreshold" THEN Scalar("70") ELSE Scalar("true")])

DEFAULT_ARCHIVE_CONFIG ==
  Obj([k \in {"autoOnCompact", "projectScope", "minContentLength"} |->
         IF k = "minContentLength" THEN Scalar("50") ELSE Scalar("true")])

DEFAULT_MONITOR_CONFIG == Obj([k \in {"tokenThreshold"} |-> Scalar("70")])

DEFAULT_CONFIG ==
  Obj([k \in {"statusline", "archive", "monitor"} |->
         CASE k = "statusline" -> DEFAULT_STATUSLINE_CONFIG
           [] k = "archive" -> DEFAULT_ARCHIVE_CONFIG
           [] k = "monitor" -> DEFAULT_MONITOR_CONFIG])

CONFIG_PRESETS(preset) ==
  LET statusline(warn, on, last) ==
        Obj([k \in {"enabled", "showFragments", "showLastArchive",
                    "showContext", "contextWarningThreshold"} |->
               CASE k = "contextWarningThreshold" -> Scalar(warn)
                 [] k = "showLastArchive" -> Scalar(last)
                 [] OTHER -> Scalar(on)])
      archive(auto, min) ==
        Obj([k \in {"autoOnCompact", "projectScope", "minContentLength"} |->
               CASE k = "autoOnCompact" -> Scalar(auto)
                 [] k = "projectScope" -> Scalar("true")
                 [] OTHER -> Scalar(min)])
      monitor(threshold) == Obj([k \in {"tokenThreshold"} |-> Scalar(threshold)])
      config(sl, ar, mo) ==
        Obj([k \in {"statusline", "archive", "monitor"} |->
               CASE k = "statusline" -> sl [] k = "archive" -> ar
                 [] k = "monitor" -> mo])
  IN CASE preset = "full" ->
            config(statusline("70", "true", "true"), archive("true", "50"),
                   monitor("70"))
       [] preset = "essential" ->
            config(statusline("80", "true", "false"), archive("true", "100"),
                   monitor("80"))
       [] preset = "minimal" ->
            config(statusline("90", "false", "false"), archive("false", "50"),
                   monitor("90"))

Presets == {"full", "essential", "minimal"}

\* Object.keys(value) for an object or a scalar number or boolean
ObjectKeys(value) == IF value.type = "object" THEN DOMAIN value.fields ELSE {}

\* target[key], undefined when target has no such key
Get(target, key) ==
  IF target.type = "object" /\ key \in DOMAIN target.fields
  THEN target.fields[key] ELSE UNDEFINED_VALUE

\* deepMerge that takes every value of the source as it is
deepMergeShallow(target, source) ==
  Obj([key \in DOMAIN target.fields \cup ObjectKeys(source) |->
         IF key \in ObjectKeys(source) THEN source.fields[key]
         ELSE target.fields[key]])

\* deepMerge(target, source): a copy of target in which each key of source
\* is merged, when both values are objects, or else replaced
RECURSIVE deepMerge(_, _)
deepMerge(target, source) ==
  Obj([key \in DOMAIN target.fields \cup ObjectKeys(source) |->
         IF key \in ObjectKeys(source)
         THEN LET sourceValue == source.fields[key]
                  targetValue == Get(target, key)
              IN IF sourceValue.type = "object" /\ targetValue.type = "object"
                 THEN deepMerge(targetValue, sourceValue)
                 ELSE sourceValue
         ELSE target.fields[key]])

\* what a call gives: a value, or an exception
Returns(value) == [threw |-> FALSE, value |-> value]
Throws == [threw |-> TRUE, value |-> JNull]

\* the try block of loadConfig: readFileSync, JSON.parse, deepMerge (whose
\* Object.keys throws on null)
ReadAndMerge(file) ==
  IF file.state # "valid" \/ file.json.type = "null" THEN Throws
  ELSE Returns(deepMerge(DEFAULT_CONFIG, file.json))

\* loadConfig without its catch block
loadConfigUncaught(file) ==
  IF file.state = "missing" THEN Returns(DEFAULT_CONFIG)
  ELSE ReadAndMerge(file)

\* loadConfig(): the defaults when there is no file or the try block throws
loadConfig(file) ==
  IF file.state = "missing" THEN Returns(DEFAULT_CONFIG)
  ELSE IF ReadAndMerge(file).threw THEN Returns(DEFAULT_CONFIG)
  ELSE ReadAndMerge(file)

\* JSON.stringify then fs.writeFileSync: the file holds the value
saveConfig(config) == ConfigFile("valid", config)

\* !value in JavaScript
Falsy(value) ==
  \/ value.type \in {"null", "undefined"}
  \/ value.type = "scalar" /\ value.v \in {"false", "0", ""}

\* the contents the configuration file may have
ArchiveSections ==
  {JNull, Scalar("5"), Obj(<<>>),
   Obj([k \in {"autoOnCompact"} |-> Scalar("false")]),
   Obj([k \in {"autoOnCompact"} |-> Scalar("0")]),
   Obj([k \in {"minContentLength"} |-> Scalar("100")]),
   Obj([k \in {"autoOnCompact", "verbose"} |->
          IF k = "verbose" THEN Scalar("true") ELSE JNull])}

ConfigJson ==
  {JNull, Scalar("5"), Obj(<<>>),
   Obj([k \in {"monitor"} |-> Scalar("5")]),
   Obj([k \in {"statusline", "theme"} |->
          IF k = "theme" THEN Scalar("dark")
          ELSE Obj([j \in {"enabled"} |-> Scalar("false")])])}
  \cup {Obj([k \in {"archive"} |-> a]) : a \in ArchiveSections}

ConfigFiles ==
  {ConfigFile("missing", JNull), ConfigFile("unreadable", JNull),
   ConfigFile("invalid", JNull)}
  \cup {ConfigFile("valid", json) : json \in ConfigJson}

\* the hook input read from stdin: none, or its transcript path and cwd
StdinInputs ==
  {NoStdin}
  \cup [present : {TRUE}, transcript_path : {"", "e2e"}, cwd : {"", "projA"}]


Commands == {"pre-compact", "save", "configure"}

\* the argument a command is given: a preset name for configure, a
\* transcript path for save, or none
ArgsOf(command) ==
  CASE command = "configure" -> Presets \cup {""}
    [] command = "save" -> {"", "twice"}
    [] OTHER -> {""}

\* main is started: argv and the hook input on stdin
StartMain(command, arg, stdin) ==
  /\ main.pc \in {"none", "exited"}
  /\ runs < MaxRuns
  /\ main' = [NoMain EXCEPT !.pc = "dispatch", !.command = command,
                            !.arg = arg, !.stdin = stdin]
  /\ runs' = runs + 1
  /\ UNCHANGED <<configFile, nonCommandVars>>

\* config.archive.<field>: a TypeError when config.archive is null
ArchiveSetting(config, field) ==
  IF Get(config, "archive").type \in {"null", "undefined"} THEN Throws
  ELSE Returns(Get(Get(config, "archive"), field))

\* handlePreCompact that does not look at archive.autoOnCompact
handlePreCompactAlways ==
  LET r == loadConfig(configFile)
  IN /\ main.pc = "dispatch"
     /\ main.command = "pre-compact"
     /\ IF r.threw
        THEN main' = [main EXCEPT !.pc = "threw"]
        ELSE IF ~main.stdin.present \/ main.stdin.transcript_path = ""
        THEN main' = [main EXCEPT !.pc = "returned", !.config = r.value,
                                  !.loaded = TRUE]
        ELSE main' = [main EXCEPT !.pc = "opening", !.config = r.value,
                                  !.loaded = TRUE]
     /\ UNCHANGED <<configFile, runs, nonCommandVars>>

\* handlePreCompact up to await initDb(): it returns when auto-archive is
\* off or the hook input names no transcript
handlePreCompact ==
  LET r == loadConfig(configFile)
      auto == ArchiveSetting(r.value, "autoOnCompact")
  IN /\ main.pc = "dispatch"
     /\ main.command = "pre-compact"
     /\ IF r.threw
        THEN main' = [main EXCEPT !.pc = "threw"]
        ELSE IF auto.threw
        THEN main' = [main EXCEPT !.pc = "threw", !.config = r.value,
                                  !.loaded = TRUE]
        ELSE IF Falsy(auto.value)
        THEN main' = [main EXCEPT !.pc = "returned", !.config = r.value,
                                  !.loaded = TRUE]
        ELSE IF ~main.stdin.present \/ main.stdin.transcript_path = ""
        THEN main' = [main EXCEPT !.pc = "returned", !.config = r.value,
                                  !.loaded = TRUE]
        ELSE main' = [main EXCEPT !.pc = "opening", !.config = r.value,
                                  !.loaded = TRUE]
     /\ UNCHANGED <<configFile, runs, nonCommandVars>>

\* the transcript handleSave archives: its argument, else the hook input's
SavePath == IF main.arg # "" THEN main.arg ELSE main.stdin.transcript_path

\* handleSave up to await initDb(): usage when no transcript is named
handleSave ==
  LET r == loadConfig(configFile)
  IN /\ main.pc = "dispatch"
     /\ main.command = "save"
     /\ IF r.threw
        THEN main' = [main EXCEPT !.pc = "threw"]
        ELSE IF SavePath = ""
        THEN main' = [main EXCEPT !.pc = "returned", !.config = r.value,
                                  !.loaded = TRUE]
        ELSE main' = [main EXCEPT !.pc = "opening", !.config = r.value,
                                  !.loaded = TRUE]
     /\ UNCHANGED <<configFile, runs, nonCommandVars>>

\* initDb resolved: the project is worked out from archive.projectScope and
\* the cwd, and archiveSession is called on the transcript
InitDbDone ==
  LET scope == ArchiveSetting(main.config, "projectScope")
      path == IF main.command = "save" THEN SavePath
              ELSE main.stdin.transcript_path
  IN /\ main.pc = "opening"
     /\ IF scope.threw
        THEN main' = [main EXCEPT !.pc = "threw", !.opened = TRUE]
        ELSE main' = [main EXCEPT
                        !.pc = "archiving", !.opened = TRUE,
                        !.archived = Append(main.archived,
                           [path |-> path,
                            scoped |-> ~Falsy(scope.value) /\ main.stdin.cwd # ""])]
     /\ UNCHANGED <<configFile, runs, nonCommandVars>>

\* initDb rejected: the store cannot be opened
InitDbFail ==
  /\ main.pc = "opening"
  /\ main' = [main EXCEPT !.pc = "threw"]
  /\ UNCHANGED <<configFile, runs, nonCommandVars>>

\* archiveSession returned, having stored fragments or not; the handler
\* prints the result and returns
ArchiveReturned(stored) ==
  /\ main.pc = "archiving"
  /\ main' = [main EXCEPT !.pc = "returned", !.stored = stored]
  /\ UNCHANGED <<configFile, runs, nonCommandVars>>

\* archiveSession threw (unreadable transcript, embedding failure)
ArchiveThrew ==
  /\ main.pc = "archiving"
  /\ main' = [main EXCEPT !.pc = "threw"]
  /\ UNCHANGED <<configFile, runs, nonCommandVars>>

\* handleConfigure: applyPreset writes the merged preset, or the usage text
handleConfigure ==
  /\ main.pc = "dispatch"
  /\ main.command = "configure"
  /\ configFile' = IF main.arg \in Presets
                   THEN saveConfig(deepMerge(DEFAULT_CONFIG, CONFIG_PRESETS(main.arg)))
                   ELSE configFile
  /\ main' = [main EXCEPT !.pc = "returned"]
  /\ UNCHANGED <<runs, nonCommandVars>>

\* main's catch block: the error is printed and process.exit(1) ends the
\* process there and then
MainCatch ==
  /\ main.pc = "threw"
  /\ main' = [main EXCEPT !.pc = "exited", !.reported = TRUE, !.exit = "1"]
  /\ UNCHANGED <<configFile, runs, nonCommandVars>>

\* main's finally block after the handler returned: closeDb, and the
\* process ends with status 0
MainFinally ==
  /\ main.pc = "returned"
  /\ main' = [main EXCEPT !.pc = "exited", !.closed = TRUE, !.exit = "0"]
  /\ UNCHANGED <<configFile, runs, nonCommandVars>>

CommandInit ==
  /\ ArchiveIdle
  /\ minContentLength = MIN_CONTENT_LENGTH
  /\ SearchIdle
  /\ FusionIdle
  /\ ChunkIdle
  /\ EmbedderIdle
  /\ ProgressIdle
  /\ configFile \in ConfigFiles
  /\ main = NoMain
  /\ runs = 0

CommandNext ==
  \/ \E command \in Commands, stdin \in StdinInputs :
       \E arg \in ArgsOf(command) : StartMain(command, arg, stdin)
  \/ handlePreCompact
  \/ handleSave
  \/ handleConfigure
  \/ InitDbDone
  \/ InitDbFail
  \/ \E stored \in BOOLEAN : ArchiveReturned(stored)
  \/ ArchiveThrew
  \/ MainCatch
  \/ MainFinally

CommandSpec == CommandInit /\ [][CommandNext]_vars

PreCompactRun == main.command = "pre-compact" /\ main.pc # "dispatch"
AutoArchive == Get(Get(main.config, "archive"), "autoOnCompact")
HasTranscript == main.stdin.present /\ main.stdin.transcript_path # ""
MinimalConfigFile ==
  saveConfig(deepMerge(DEFAULT_CONFIG, CONFIG_PRESETS("minimal")))
NoArchiving ==
  /\ ~main.opened
  /\ main.archived = <<>>
  /\ ~main.stored
  /\ main.pc \notin {"opening", "archiving"}

\* C22: with auto-archive off (archive.autoOnCompact false, as the minimal
\* preset writes it) or no transcript path in the hook input the pre-compact
\* hook does no archiving: the store is not opened, nothing is embedded,
\* inserted or saved; with auto-archive on and a transcript path it runs
\* archiveSession once, on that transcript.
C22_PreCompactHook ==
  PreCompactRun =>
    /\ (main.loaded /\ (Falsy(AutoArchive) \/ ~HasTranscript)) => NoArchiving
    /\ configFile = MinimalConfigFile => main.loaded /\ NoArchiving
    /\ Len(main.archived) <= 1
    /\ (main.loaded /\ ~Falsy(AutoArchive) /\ HasTranscript) =>
         /\ main.pc \in {"opening", "archiving", "returned", "threw", "exited"}
         /\ main.opened =>
              main.archived = <<[path |-> main.stdin.transcript_path,
                                 scoped |-> main.stdin.cwd # ""
                                            /\ ~Falsy(Get(Get(main.config, "archive"),
                                                          "projectScope"))]>>
         /\ main.exit = "0" => main.opened

\* C22 witness: after configure minimal the hook ran with a transcript path
\* and ended without archiving.
C22_Witness ==
  /\ PreCompactRun
  /\ configFile = MinimalConfigFile
  /\ HasTranscript
  /\ main.pc = "exited"
  /\ runs = 2
  /\ NoArchiving


\* a run of a command that loads the configuration, past that point
ConfigRun == main.command \in {"pre-compact", "save"} /\ main.pc # "dispatch"

\* the file gives the field of the section a value: the section's object
\* has the field, or the file puts something else in the section's place
FileSets(section, field) ==
  /\ configFile.state = "valid"
  /\ configFile.json.type = "object"
  /\ section \in DOMAIN configFile.json.fields
  /\ \/ configFile.json.fields[section].type # "object"
     \/ field \in DOMAIN configFile.json.fields[section].fields

C30_StoreClosedOnExit ==
  main.pc = "exited" =>
    /\ main.closed
    /\ main.exit = "1" => main.reported
    /\ main.exit \in {"0", "1"}

====
